---- MODULE Spec2Model ----
(***************************************************************************)
(* Cell DAGs, pruned branches, Merkle proofs and Merkle updates of the     *)
(* everscale/broxus types library.                                         *)
(*                                                                         *)
(* A cell is the record [x, m, d, r]: exotic flag, level mask (0..7),      *)
(* data and the sequence of child cells.  Data is the record               *)
(* [n, tag, bits, hs, ds]: the bit length, the type byte of an exotic      *)
(* cell, the remaining plain bits, and the 256-bit hashes and 16-bit       *)
(* depths stored in it.                                                    *)
(* SHA-256 is modelled as the injective image record [x, m, d, cd, ch]     *)
(* (descriptor, data, child depths, child hashes).                         *)
(***************************************************************************)
EXTENDS Integers, Sequences, FiniteSets, TLC

\* ------------------------------------------------------------------ bounds

MaxOldNodes == 6    \* cells of an unfolded old tree
MaxNewNodes == 4    \* cells of an unfolded new tree
MaxForeignNodes == 2    \* cells of a tree that lends hashes foreign to old
MaxTwiceNodes == 3    \* cells of a tree built from twice
MaxFailedStores == 2  \* store calls made on a full builder
MaxSharedNodes == 5   \* cells of an unfolded tree in which subtrees occur twice
MaxActions == 2       \* actions of an output action list
MaxMerkleNodes == 3   \* cells of a tree that holds Merkle cells
MaxNextCalls == 4     \* calls of next() made on one iterator

\* ------------------------------------------------------- program constants

TagPrunedBranch == 1
TagMerkleProof == 3
TagMerkleUpdate == 4
MerkleProofBits == 280
MerkleProofRefs == 1
MerkleUpdateBits == 552
MerkleUpdateRefs == 2
U16 == 65536
U8 == 256
MaxBitLen == 1023
MaxRefCount == 4

\* ------------------------------------------------------------- level mask

Bit(m, i) == (m \div (2 ^ i)) % 2

MaskLevel(m) == Bit(m, 0) + Bit(m, 1) + Bit(m, 2)

MaskApply(m, level) == m % (2 ^ level)

MaskHashIndex(m, level) == MaskLevel(MaskApply(m, level))

MaskVirtualize(m, offset) == m \div (2 ^ offset)

MaskOr(a, b) ==
    LET o(i) == IF Bit(a, i) = 1 \/ Bit(b, i) = 1 THEN 2 ^ i ELSE 0
    IN o(0) + o(1) + o(2)

\* the levels a cell with mask m has a hash of its own for: 0 and i+1 for
\* every set bit i, in increasing order
SigLevels(m) ==
    LET l(i) == IF Bit(m, i) = 1 THEN <<i + 1>> ELSE <<>>
    IN <<0>> \o l(0) \o l(1) \o l(2)

\* ------------------------------------------------------------------- cells

\* n one-bits of plain data
OrdData(n) == [n |-> n, tag |-> 0, bits |-> n, hs |-> <<>>, ds |-> <<>>]

EmptyData == OrdData(0)

EmptyCell == [x |-> FALSE, m |-> 0, d |-> EmptyData, r |-> <<>>]

IsExotic(c) == c.x
IsPrunedBranch(c) == c.x /\ c.d.tag = TagPrunedBranch
IsMerkle(c) == c.x /\ c.d.tag \in {TagMerkleProof, TagMerkleUpdate}
MerkleOffset(c) == IF IsMerkle(c) THEN 1 ELSE 0
ReferenceCount(c) == Len(c.r)

SeqMax(s) == IF s = <<>> THEN 0 ELSE CHOOSE v \in {s[i] : i \in DOMAIN s} :
                 \A i \in DOMAIN s : s[i] <= v

RECURSIVE CellDepth(_, _)
CellDepth(c, level) ==
    IF IsPrunedBranch(c)
    THEN LET stored(hi) == IF hi = MaskLevel(c.m) THEN 0 ELSE c.d.ds[hi + 1]
         IN stored(MaskHashIndex(c.m, level))
    ELSE IF c.r = <<>> THEN 0
    ELSE LET below(l) == 1 + SeqMax([i \in DOMAIN c.r |-> CellDepth(c.r[i], l)])
         IN below(SigLevels(c.m)[MaskHashIndex(c.m, level) + 1] + MerkleOffset(c))

RECURSIVE CellHash(_, _)
CellHash(c, level) ==
    IF IsPrunedBranch(c)
    THEN LET stored(hi) ==
                 IF hi = MaskLevel(c.m)
                 THEN [x |-> TRUE, m |-> c.m, d |-> c.d, cd |-> <<>>, ch |-> <<>>]
                 ELSE c.d.hs[hi + 1]
         IN stored(MaskHashIndex(c.m, level))
    ELSE LET image(sl, l) ==
                 [x |-> c.x, m |-> MaskApply(c.m, sl), d |-> c.d,
                  cd |-> [i \in DOMAIN c.r |-> CellDepth(c.r[i], l)],
                  ch |-> [i \in DOMAIN c.r |-> CellHash(c.r[i], l)]]
             at(sl) == image(sl, sl + MerkleOffset(c))
         IN at(SigLevels(c.m)[MaskHashIndex(c.m, level) + 1])

ReprHash(c) == CellHash(c, MaskLevel(c.m))
ReprDepth(c) == CellDepth(c, MaskLevel(c.m))

EmptyCellHash == ReprHash(EmptyCell)

\* ------------------------------------------------- cell builder (finalizer)

NoErr == "Ok"

Built(c) == [err |-> NoErr, cell |-> c]
Failed(e) == [err |-> e, cell |-> EmptyCell]

\* union of the level masks of the children
ComputeLevelMask(rs) ==
    LET b(i) == IF \E k \in DOMAIN rs : Bit(rs[k].m, i) = 1 THEN 2 ^ i ELSE 0
    IN b(0) + b(1) + b(2)

\* CellBuilder::build_ext: lm is the mask set with set_level_mask, or -1
BuildCell(x, lm, d, rs) ==
    LET computed(kids) ==
            IF ~x THEN kids
            ELSE IF d.tag = TagPrunedBranch THEN d.bits % 8
            ELSE IF d.tag \in {TagMerkleProof, TagMerkleUpdate}
                 THEN MaskVirtualize(kids, 1)
            ELSE 0
        levels(m, n) == m # 0 /\ m = d.bits % 8 /\ Len(d.hs) = n /\ Len(d.ds) = n
        wellformed(m) ==
            IF ~x THEN TRUE
            ELSE IF d.tag = TagPrunedBranch
                 THEN rs = <<>> /\ levels(m, MaskLevel(m))
            ELSE IF d.tag = TagMerkleProof
                 THEN Len(rs) = MerkleProofRefs /\ d.n = MerkleProofBits
            ELSE IF d.tag = TagMerkleUpdate
                 THEN Len(rs) = MerkleUpdateRefs /\ d.n = MerkleUpdateBits
            ELSE FALSE
        finalize(m) ==
            IF Len(rs) > MaxRefCount \/ d.n > MaxBitLen THEN Failed("CellOverflow")
            ELSE IF ~wellformed(m) THEN Failed("InvalidCell")
            ELSE Built([x |-> x, m |-> m, d |-> d, r |-> rs])
    IN finalize(IF lm = -1 THEN computed(ComputeLevelMask(rs)) ELSE lm)

\* make_pruned_branch(cell, merkle_depth, context)
MakePrunedBranch(cell, merkle_depth) ==
    LET branch(mask, lv) ==
            BuildCell(TRUE, mask,
                      [n |-> 16 + 272 * Len(lv), tag |-> TagPrunedBranch, bits |-> mask,
                       hs |-> [i \in DOMAIN lv |-> CellHash(cell, lv[i])],
                       ds |-> [i \in DOMAIN lv |-> CellDepth(cell, lv[i])]],
                      <<>>)
    IN branch(MaskOr(cell.m, 2 ^ merkle_depth) % 8, SigLevels(cell.m))

\* ----------------------------------------------------------------- filters

\* A filter is [inv, incl, sub]: the hashes it includes, the hashes whose
\* subtree it includes, and whether it is wrapped in InvertedFilter.
SetFilter(s) == [inv |-> FALSE, incl |-> s, sub |-> {}]

BaseCheck(f, h) ==
    IF h \in f.sub THEN "IncludeSubtree"
    ELSE IF h \in f.incl THEN "Include"
    ELSE "Skip"

InvertedFilter(f) == [f EXCEPT !.inv = TRUE]

InvertedCheck(f, h) ==
    IF BaseCheck(f, h) = "Skip" THEN "Include" ELSE "Skip"

FilterCheck(f, h) == IF f.inv THEN InvertedCheck(f, h) ELSE BaseCheck(f, h)

\* ------------------------------------------------------ Merkle proof builder

EmptyCells == [h \in {} |-> EmptyCell]
EmptyFlags == [h \in {} |-> FALSE]

\* one more entry on a traversal's stack (a Node pushed on `stack`, or one more
\* native frame of a function that calls itself): frames counts the entries
\* alive, deepest is the largest count so far
PushFrame(st) ==
    [st EXCEPT !.frames = @ + 1,
               !.deepest = IF st.frames + 1 > @ THEN st.frames + 1 ELSE @]

\* the entry popped, or the function returning
PopFrame(st) == [st EXCEPT !.frames = @ - 1]

\* state of one BuilderImpl: the memo table `cells`, the tracked pruned
\* branches, the result, a log of what was asked of the filter and of
\* the finalizer, and the height of `stack`
ProofStart(track) ==
    [cells |-> EmptyCells, pruned |-> EmptyFlags, track |-> track,
     err |-> NoErr, cell |-> EmptyCell, checked |-> <<>>, built |-> 0,
     frames |-> 0, deepest |-> 0]

RECURSIVE ProofNode(_, _, _, _)
RECURSIVE ProofRefs(_, _, _, _, _, _)

\* the loop in which a child of an included subtree is pushed and rebuilt like
\* any included child
ProofRefs_NoSplice(cell, i, md, f, st, acc) ==
    IF st.err # NoErr \/ i > Len(cell.r) THEN [st |-> st, children |-> acc]
    ELSE
    LET child == cell.r[i]
        prune(h, st1, pb) ==
            ProofRefs(cell, i + 1, md, f,
                      [st1 EXCEPT
                         !.built = @ + 1,
                         !.err = pb.err,
                         !.pruned = IF st.track /\ pb.err = NoErr
                                    THEN (h :> FALSE) @@ @ ELSE @],
                      Append(acc, pb.cell))
        descend(sub) == ProofRefs(cell, i + 1, md, f, sub, Append(acc, sub.cell))
        filtered(h, st1, act) ==
            IF act = "Skip" /\ ReferenceCount(child) > 0
            THEN prune(h, st1, MakePrunedBranch(child, md))
            ELSE descend(ProofNode(child, md + MerkleOffset(child), f, st1))
        visit(h) ==
            IF h \in DOMAIN st.cells
            THEN ProofRefs(cell, i + 1, md, f, st, Append(acc, st.cells[h]))
            ELSE filtered(h, [st EXCEPT !.checked = Append(@, h)], FilterCheck(f, h))
    IN visit(ReprHash(child))

\* the loop without the lookup in the memo table `cells`
ProofRefs_NoMemo(cell, i, md, f, st, acc) ==
    IF st.err # NoErr \/ i > Len(cell.r) THEN [st |-> st, children |-> acc]
    ELSE
    LET child == cell.r[i]
        prune(h, st1, pb) ==
            ProofRefs(cell, i + 1, md, f,
                      [st1 EXCEPT
                         !.built = @ + 1,
                         !.err = pb.err,
                         !.pruned = IF st.track /\ pb.err = NoErr
                                    THEN (h :> FALSE) @@ @ ELSE @],
                      Append(acc, pb.cell))
        descend(sub) == ProofRefs(cell, i + 1, md, f, sub, Append(acc, sub.cell))
        filtered(h, st1, act) ==
            IF act = "IncludeSubtree"
            THEN ProofRefs(cell, i + 1, md, f, st1, Append(acc, child))
            ELSE IF act = "Skip" /\ ReferenceCount(child) > 0
            THEN prune(h, st1, MakePrunedBranch(child, md))
            ELSE descend(ProofNode(child, md + MerkleOffset(child), f, st1))
        visit(h) == filtered(h, [st EXCEPT !.checked = Append(@, h)], FilterCheck(f, h))
    IN visit(ReprHash(child))

\* the loop over last.references of one stack node; md is last.merkle_depth
ProofRefs(cell, i, md, f, st, acc) ==
    IF st.err # NoErr \/ i > Len(cell.r) THEN [st |-> st, children |-> acc]
    ELSE
    LET child == cell.r[i]
        \* the child replaced by the pruned branch pb
        prune(h, st1, pb) ==
            ProofRefs(cell, i + 1, md, f,
                      [st1 EXCEPT
                         !.built = @ + 1,
                         !.err = pb.err,
                         !.pruned = IF st.track /\ pb.err = NoErr
                                    THEN (h :> FALSE) @@ @ ELSE @],
                      Append(acc, pb.cell))
        \* the child pushed on the stack and rebuilt: sub is the state after it
        descend(sub) == ProofRefs(cell, i + 1, md, f, sub, Append(acc, sub.cell))
        filtered(h, st1, act) ==
            IF act = "IncludeSubtree"
            THEN ProofRefs(cell, i + 1, md, f, st1, Append(acc, child))
            ELSE IF act = "Skip" /\ ReferenceCount(child) > 0
            THEN prune(h, st1, MakePrunedBranch(child, md))
            ELSE descend(ProofNode(child, md + MerkleOffset(child), f, st1))
        visit(h) ==
            IF h \in DOMAIN st.cells
            THEN ProofRefs(cell, i + 1, md, f, st, Append(acc, st.cells[h]))
            ELSE filtered(h, [st EXCEPT !.checked = Append(@, h)], FilterCheck(f, h))
    IN visit(ReprHash(child))

\* ProofNode without store_cell_data: the rebuilt cell loses its data
ProofNode_NoData(cell, md, f, st) ==
    LET children_mask(rs) == MaskOr(cell.m, ComputeLevelMask(rs.children))
        rebuilt(rs, b) ==
            [rs.st EXCEPT
               !.built = @ + 1,
               !.err = b.err,
               !.cell = b.cell,
               !.cells = IF b.err = NoErr THEN (ReprHash(cell) :> b.cell) @@ @ ELSE @,
               !.frames = @ - 1]
        pop(rs) ==
            IF rs.st.err # NoErr THEN rs.st
            ELSE rebuilt(rs, BuildCell(FALSE,
                                       MaskVirtualize(children_mask(rs), MerkleOffset(cell)),
                                       EmptyData, rs.children))
    IN pop(ProofRefs(cell, 1, md, f, PushFrame(st), <<>>))

\* one stack node from push to pop: its children, then the rebuilt cell
ProofNode(cell, md, f, st) ==
    LET children_mask(rs) == MaskOr(cell.m, ComputeLevelMask(rs.children))
        rebuilt(rs, b) ==
            [rs.st EXCEPT
               !.built = @ + 1,
               !.err = b.err,
               !.cell = b.cell,
               !.cells = IF b.err = NoErr THEN (ReprHash(cell) :> b.cell) @@ @ ELSE @,
               !.frames = @ - 1]
        pop(rs) ==
            IF rs.st.err # NoErr THEN rs.st
            ELSE rebuilt(rs, BuildCell(cell.x,
                                       MaskVirtualize(children_mask(rs), MerkleOffset(cell)),
                                       cell.d, rs.children))
    IN pop(ProofRefs(cell, 1, md, f, PushFrame(st), <<>>))

\* BuilderImpl::build without the check of the root
ProofBuildImpl_NoRootCheck(root, f, track) ==
    LET start(st) == ProofNode(root, MerkleOffset(root), f, st)
        check(h) == start([ProofStart(track) EXCEPT !.checked = <<h>>])
    IN check(ReprHash(root))

\* BuilderImpl::build looking the root up in the filter's set of included
\* hashes instead of asking filter.check
ProofBuildImpl_RootInSet(root, f, track) ==
    LET start(h, st) ==
            IF h \notin f.incl
            THEN [st EXCEPT !.err = "EmptyProof"]
            ELSE ProofNode(root, MerkleOffset(root), f, st)
        check(h) == start(h, [ProofStart(track) EXCEPT !.checked = <<h>>])
    IN check(ReprHash(root))

\* BuilderImpl::build
ProofBuildImpl(root, f, track) ==
    LET start(h, st) ==
            IF FilterCheck(f, h) = "Skip"
            THEN [st EXCEPT !.err = "EmptyProof"]
            ELSE ProofNode(root, MerkleOffset(root), f, st)
        check(h) == start(h, [ProofStart(track) EXCEPT !.checked = <<h>>])
    IN check(ReprHash(root))

\* MerkleProofBuilder::build_ext: the MerkleProof record
ProofBuild(root, f) ==
    LET record(st) ==
            [err |-> st.err, hash |-> ReprHash(root), depth |-> ReprDepth(root),
             cell |-> st.cell, checked |-> st.checked, built |-> st.built,
             stack |-> st.deepest]
    IN record(ProofBuildImpl(root, f, FALSE))

\* build_raw_ext of the builder that does not track the pruned branches
ProofBuildTracked_Untracked(root, f) ==
    LET result(st) ==
            [err |-> st.err, cell |-> st.cell,
             pruned |-> IF st.err = NoErr THEN st.pruned ELSE EmptyFlags,
             checked |-> st.checked, built |-> st.built]
    IN result(ProofBuildImpl(root, f, FALSE))

\* MerkleProofExtBuilder::build_raw_ext: the proof cell and the map of the
\* pruned branches
ProofBuildTracked(root, f) ==
    LET result(st) ==
            [err |-> st.err, cell |-> st.cell,
             pruned |-> IF st.err = NoErr THEN st.pruned ELSE EmptyFlags,
             checked |-> st.checked, built |-> st.built]
    IN result(ProofBuildImpl(root, f, TRUE))

RECURSIVE ForCellSearch(_, _, _, _)

\* the search without the pop of an exhausted iterator: the stack is kept
ForCellSearch_KeepStack(cell, i, child_hash, path) ==
    IF i > Len(cell.r) THEN [found |-> FALSE, cells |-> path]
    ELSE IF ReprHash(cell.r[i]) = child_hash THEN [found |-> TRUE, cells |-> path]
    ELSE LET next(sub) ==
                 IF sub.found THEN sub
                 ELSE ForCellSearch(cell, i + 1, child_hash, path)
         IN next(ForCellSearch(cell.r[i], 1, child_hash,
                               path \cup {ReprHash(cell.r[i])}))

\* create_for_cell, the loop over the stack of reference iterators: the
\* references of `cell` from the i-th on; path holds the repr hashes of the
\* cells whose iterators are on the stack. cells is what is left of the stack
\* when the loop ends.
ForCellSearch(cell, i, child_hash, path) ==
    IF i > Len(cell.r) THEN [found |-> FALSE, cells |-> {}]
    ELSE IF ReprHash(cell.r[i]) = child_hash THEN [found |-> TRUE, cells |-> path]
    ELSE LET next(sub) ==
                 IF sub.found THEN sub
                 ELSE ForCellSearch(cell, i + 1, child_hash, path)
         IN next(ForCellSearch(cell.r[i], 1, child_hash,
                               path \cup {ReprHash(cell.r[i])}))

\* the filter that includes the child alone
RootOrChild_ChildOnly(cells, child_hash) == SetFilter({child_hash})

\* the filter RootOrChild: Include for the cells of the stack and for the child
RootOrChild(cells, child_hash) == SetFilter(cells \cup {child_hash})

\* MerkleProof::create_for_cell(root, child_hash).build()
CreateForCell(root, child_hash) ==
    ProofBuild(root,
               RootOrChild(ForCellSearch(root, 1, child_hash, {ReprHash(root)}).cells,
                           child_hash))

\* ----------------------------------------------------- Merkle update builder

RECURSIVE Fill(_, _, _, _)
RECURSIVE FillRefs(_, _, _, _, _, _)

\* Resolver::fill; rs is the resolver [pruned, visited, changed], rs.res the
\* value returned, rs.checked the log of the hashes the filter was asked and
\* rs.frames the number of calls of fill that have not returned
Fill(cell, skip_filter, f, caller) ==
    LET fill(rs) ==
        LET \* after the loop over the references: k.res is its `result`
            children(h, is_pruned, k) ==
                [k EXCEPT !.changed = IF k.res THEN @ \cup {h} ELSE @,
                          !.res = k.res \/ is_pruned]
            process(h, is_pruned, rs2, act) ==
                IF ~(skip_filter \/ act # "Skip")
                THEN [rs2 EXCEPT !.res = is_pruned]
                ELSE children(h, is_pruned,
                              FillRefs(cell, 1, skip_filter \/ act = "IncludeSubtree",
                                       f, rs2, FALSE))
            mark(h, rs1) ==
                IF h \in DOMAIN rs.pruned /\ rs.pruned[h] THEN [rs1 EXCEPT !.res = FALSE]
                ELSE
                LET is_pruned == h \in DOMAIN rs.pruned
                    rs2 == IF is_pruned THEN [rs1 EXCEPT !.pruned[h] = TRUE] ELSE rs1
                IN IF skip_filter THEN process(h, is_pruned, rs2, "Include")
                   ELSE process(h, is_pruned, [rs2 EXCEPT !.checked = Append(@, h)],
                                FilterCheck(f, h))
            visit(h) ==
                IF h \in rs.visited THEN [rs EXCEPT !.res = FALSE]
                ELSE mark(h, [rs EXCEPT !.visited = @ \cup {h}])
        IN visit(ReprHash(cell))
    IN PopFrame(fill(PushFrame(caller)))

\* the loop over the references with `result = self.fill(..)` for
\* `result |= self.fill(..)`: the answer of the last child only
FillRefs_LastOnly(cell, i, skip_filter, f, rs, result) ==
    IF i > Len(cell.r) THEN [rs EXCEPT !.res = result]
    ELSE LET rest(k) == FillRefs(cell, i + 1, skip_filter, f, k, k.res)
         IN rest(Fill(cell.r[i], skip_filter, f, rs))

\* for child in cell.references() { result |= self.fill(child, skip_filter) }
FillRefs(cell, i, skip_filter, f, rs, result) ==
    IF i > Len(cell.r) THEN [rs EXCEPT !.res = result]
    ELSE LET rest(k) == FillRefs(cell, i + 1, skip_filter, f, k, result \/ k.res)
         IN rest(Fill(cell.r[i], skip_filter, f, rs))

\* the changed-cells set without the insertion of the root
ChangedCells_NoRoot(oldc, f, pruned_branches) ==
    LET filled(k) ==
            [changed |-> k.changed, checked |-> k.checked, deepest |-> k.deepest]
    IN filled(Fill(oldc, FALSE, f,
                   [pruned |-> pruned_branches, visited |-> {}, changed |-> {},
                    res |-> FALSE, checked |-> <<>>, frames |-> 0, deepest |-> 0]))

\* the changed-cells set: resolver.fill(old) and the insertion of the root
ChangedCells(oldc, f, pruned_branches) ==
    LET filled(k) ==
            [changed |-> IF k.res THEN k.changed \cup {ReprHash(oldc)} ELSE k.changed,
             checked |-> k.checked, deepest |-> k.deepest]
    IN filled(Fill(oldc, FALSE, f,
                   [pruned |-> pruned_branches, visited |-> {}, changed |-> {},
                    res |-> FALSE, checked |-> <<>>, frames |-> 0, deepest |-> 0]))

MkUpdate(e, oh, nh, od, nd, oc, nc, checked, built) ==
    [err |-> e, old_hash |-> oh, new_hash |-> nh, old_depth |-> od,
     new_depth |-> nd, old |-> oc, new |-> nc, checked |-> checked, built |-> built]

\* BuilderImpl::build of the update builder. `checked` logs the hashes the
\* caller's filter was asked about, `built` counts the cells the context built.
\* Both proofs are requested with allow_different_root(true); BuilderImpl::build
\* of the proof builder has no such setting and checks its root in every case.
UpdateBuildDiff(oldc, newc, f) ==
    LET result(e, oc, nc, checked, built) ==
            MkUpdate(e, ReprHash(oldc), ReprHash(newc), ReprDepth(oldc),
                     ReprDepth(newc), oc, nc, checked, built)
        \* np: the proof of new, cc: the changed cells, op: the proof of old
        old_proof(np, cc, op) ==
            IF op.err # NoErr
            THEN result(op.err, EmptyCell, EmptyCell,
                        np.checked \o cc.checked, np.built + op.built)
            ELSE result(NoErr, op.cell, np.cell,
                        np.checked \o cc.checked, np.built + op.built)
        resolve(np, cc) ==
            old_proof(np, cc, ProofBuildImpl(oldc, SetFilter(cc.changed), FALSE))
        new_proof(np) ==
            IF np.err # NoErr
            THEN result(np.err, EmptyCell, EmptyCell, np.checked, np.built)
            ELSE resolve(np, ChangedCells(oldc, f, np.pruned))
    IN new_proof(ProofBuildImpl(newc, InvertedFilter(f), TRUE))

\* what BuilderImpl::build has in its resolver before it builds the old side:
\* the pruned branches of the new side and the changed cells
Resolver(oldc, newc, f) ==
    LET filled(np, cc) ==
            [err |-> NoErr, pruned |-> np.pruned, changed |-> cc.changed,
             frames |-> cc.deepest]
        resolved(np) ==
            IF np.err # NoErr
            THEN [err |-> np.err, pruned |-> EmptyFlags, changed |-> {}, frames |-> 0]
            ELSE filled(np, ChangedCells(oldc, f, np.pruned))
    IN resolved(ProofBuildImpl(newc, InvertedFilter(f), TRUE))

\* the builder without the shortcut for equal hashes
UpdateBuild_NoShortcut(oldc, newc, f) == UpdateBuildDiff(oldc, newc, f)

UpdateBuild(oldc, newc, f) ==
    IF ReprHash(oldc) = ReprHash(newc)
    THEN LET same(pruned) ==
                 MkUpdate(pruned.err, ReprHash(oldc), ReprHash(oldc), ReprDepth(oldc),
                          ReprDepth(oldc), pruned.cell, pruned.cell, <<>>, 1)
         IN same(MakePrunedBranch(oldc, 0))
    ELSE UpdateBuildDiff(oldc, newc, f)

\* ----------------------------------------------------- Merkle update applier

\* `merkle_depth += is_merkle as u8`, as the references of `cell` go on a
\* traversal's stack without the addition
Deeper_Forgot(st, cell) == st

\* `merkle_depth += is_merkle as u8`, as the references of `cell` go on a
\* traversal's stack; the counter is a u8
Deeper(st, cell) == [st EXCEPT !.merkle_depth = (@ + MerkleOffset(cell)) % U8]

\* `merkle_depth -= iter.cell().descriptor().is_merkle() as u8`, as the
\* references of `cell` leave the stack; underflow: a subtraction from a
\* counter smaller than what is subtracted
Shallower(st, cell) ==
    [st EXCEPT !.merkle_depth = (@ + U8 - MerkleOffset(cell)) % U8,
               !.underflow = @ \/ st.merkle_depth < MerkleOffset(cell)]

RECURSIVE OldSideWalk(_, _)
RECURSIVE OldSideRefs(_, _, _)

\* find_old_cells, first loop: st is [visited, old_cells, merkle_depth,
\* underflow]; the references of `cell` are on top of the stack
OldSideWalk(cell, st) == OldSideRefs(cell, 1, st)

\* the first loop of find_old_cells keeping no hash of a pruned branch
OldSideRefs_NoPruned(cell, i, st) ==
    IF i > Len(cell.r) THEN Shallower(st, cell)
    ELSE
    LET child == cell.r[i]
        visit(h) ==
            IF h \in st.visited THEN OldSideRefs(cell, i + 1, st)
            ELSE IF IsPrunedBranch(child)
            THEN OldSideRefs(cell, i + 1, [st EXCEPT !.visited = @ \cup {h}])
            ELSE OldSideRefs(cell, i + 1,
                             OldSideWalk(child,
                                 Deeper([st EXCEPT !.visited = @ \cup {h},
                                                   !.old_cells = @ \cup {CellHash(child, st.merkle_depth)}],
                                        child)))
    IN visit(ReprHash(child))

OldSideRefs(cell, i, st) ==
    IF i > Len(cell.r) THEN Shallower(st, cell)
    ELSE
    LET child == cell.r[i]
        insert(st1) ==
            IF IsPrunedBranch(child) THEN OldSideRefs(cell, i + 1, st1)
            ELSE OldSideRefs(cell, i + 1, OldSideWalk(child, Deeper(st1, child)))
        visit(h) ==
            IF h \in st.visited THEN OldSideRefs(cell, i + 1, st)
            ELSE insert([st EXCEPT !.visited = @ \cup {h},
                                   !.old_cells = @ \cup {CellHash(child, st.merkle_depth)}])
    IN visit(ReprHash(child))

RECURSIVE NewSideCheck(_, _, _)
RECURSIVE NewSideRefs(_, _, _, _)

\* find_old_cells, second loop: st is [visited, ok, merkle_depth, underflow];
\* the function returns as soon as ok is FALSE
NewSideCheck(cell, old_cells, st) == NewSideRefs(cell, 1, old_cells, st)

NewSideRefs(cell, i, old_cells, st) ==
    IF ~st.ok THEN st
    ELSE IF i > Len(cell.r) THEN Shallower(st, cell)
    ELSE
    LET child == cell.r[i]
        insert(st1) ==
            IF IsPrunedBranch(child)
            THEN IF MaskLevel(child.m) = st1.merkle_depth + 1
                    /\ CellHash(child, st1.merkle_depth) \notin old_cells
                 THEN [st1 EXCEPT !.ok = FALSE]
                 ELSE NewSideRefs(cell, i + 1, old_cells, st1)
            ELSE NewSideRefs(cell, i + 1, old_cells,
                             NewSideCheck(child, old_cells, Deeper(st1, child)))
        visit(h) ==
            IF h \in st.visited THEN NewSideRefs(cell, i + 1, old_cells, st)
            ELSE insert([st EXCEPT !.visited = @ \cup {h}])
    IN visit(ReprHash(child))

\* MerkleUpdate::find_old_cells; merkle_depth holds the counter as each
\* debug_assert_eq!(merkle_depth, 0) that was reached found it
FindOldCells(u) ==
    LET answer(o, n) ==
            [err |-> IF n.ok THEN NoErr ELSE "InvalidData", old_cells |-> o.old_cells,
             merkle_depth |-> IF n.ok THEN <<o.merkle_depth, n.merkle_depth>>
                              ELSE <<o.merkle_depth>>,
             underflow |-> n.underflow]
        new_side(o) ==
            answer(o, NewSideCheck(u.new, o.old_cells,
                                   Deeper([visited |-> {ReprHash(u.new)}, ok |-> TRUE,
                                           merkle_depth |-> o.merkle_depth,
                                           underflow |-> o.underflow], u.new)))
    IN new_side(OldSideWalk(u.old,
                            Deeper([visited |-> {ReprHash(u.old)},
                                    old_cells |-> {CellHash(u.old, 0)},
                                    merkle_depth |-> 0, underflow |-> FALSE], u.old)))

RECURSIVE CollectWalk(_, _, _)
RECURSIVE CollectRefs(_, _, _, _)

\* apply_ext, "Collect old cells": st is [visited, old_cells, merkle_depth,
\* underflow]
CollectWalk(cell, hashes, st) == CollectRefs(cell, 1, hashes, st)

CollectRefs(cell, i, hashes, st) ==
    IF i > Len(cell.r) THEN Shallower(st, cell)
    ELSE
    LET child == cell.r[i]
        insert(st1, hash) ==
            IF hash \notin hashes THEN CollectRefs(cell, i + 1, hashes, st1)
            ELSE CollectRefs(cell, i + 1, hashes,
                     CollectWalk(child, hashes,
                                 Deeper([st1 EXCEPT !.old_cells = (hash :> child) @@ @],
                                        child)))
        visit(h) ==
            IF h \in st.visited THEN CollectRefs(cell, i + 1, hashes, st)
            ELSE insert([st EXCEPT !.visited = @ \cup {h}],
                        CellHash(child, st.merkle_depth))
    IN visit(ReprHash(child))

CollectOldCells(oldc, hashes) ==
    CollectWalk(oldc, hashes,
                Deeper([visited |-> {ReprHash(oldc)},
                        old_cells |-> (CellHash(oldc, 0) :> oldc),
                        merkle_depth |-> 0, underflow |-> FALSE], oldc))

RECURSIVE ApplierRun(_, _, _, _)
RECURSIVE ApplierRefs(_, _, _, _, _, _)

\* the loop of Applier::run answering CellUnderflow for a pruned branch whose
\* old cell is missing
ApplierRefs_Underflow(cell, i, cmd, old_cells, st, acc) ==
    IF st.err # NoErr \/ i > Len(cell.r) THEN [st |-> st, children |-> acc]
    ELSE
    LET child == cell.r[i]
        from_old(child_hash) ==
            IF child_hash \in DOMAIN old_cells
            THEN ApplierRefs(cell, i + 1, cmd, old_cells, st,
                             Append(acc, old_cells[child_hash]))
            ELSE [st |-> [st EXCEPT !.err = "CellUnderflow"], children |-> acc]
        ran(child_hash, sub) ==
            ApplierRefs(cell, i + 1, cmd, old_cells,
                        IF sub.err = NoErr
                        THEN [sub EXCEPT !.new_cells = (child_hash :> sub.cell) @@ @]
                        ELSE sub,
                        Append(acc, sub.cell))
        from_new(child_hash) ==
            IF child_hash \in DOMAIN st.new_cells
            THEN ApplierRefs(cell, i + 1, cmd, old_cells, st,
                             Append(acc, st.new_cells[child_hash]))
            ELSE ran(child_hash, ApplierRun(child, cmd, old_cells, st))
    IN IF IsPrunedBranch(child)
       THEN IF Bit(child.m, cmd) = 1
            THEN from_old(CellHash(child, MaskLevel(child.m) - 1))
            ELSE ApplierRefs(cell, i + 1, cmd, old_cells, st, Append(acc, child))
       ELSE from_new(CellHash(child, cmd))

\* Applier::run; st is [new_cells, built, err, cell] and st.frames the number
\* of calls of run that have not returned
ApplierRun(cell, merkle_depth, old_cells, st) ==
    LET child_merkle_depth == merkle_depth + MerkleOffset(cell)
        built(rs, b) ==
            [rs.st EXCEPT !.built = @ + 1, !.err = b.err, !.cell = b.cell,
                          !.frames = @ - 1]
        build(rs) ==
            IF rs.st.err # NoErr THEN rs.st
            ELSE built(rs, BuildCell(cell.x, -1, cell.d, rs.children))
    IN build(ApplierRefs(cell, 1, child_merkle_depth, old_cells, PushFrame(st), <<>>))

ApplierRefs(cell, i, cmd, old_cells, st, acc) ==
    IF st.err # NoErr \/ i > Len(cell.r) THEN [st |-> st, children |-> acc]
    ELSE
    LET child == cell.r[i]
        \* a pruned branch of this update: the old cell of that hash
        from_old(child_hash) ==
            IF child_hash \in DOMAIN old_cells
            THEN ApplierRefs(cell, i + 1, cmd, old_cells, st,
                             Append(acc, old_cells[child_hash]))
            ELSE [st |-> [st EXCEPT !.err = "InvalidData"], children |-> acc]
        \* sub: the state after self.run(child, ..)
        ran(child_hash, sub) ==
            ApplierRefs(cell, i + 1, cmd, old_cells,
                        IF sub.err = NoErr
                        THEN [sub EXCEPT !.new_cells = (child_hash :> sub.cell) @@ @]
                        ELSE sub,
                        Append(acc, sub.cell))
        from_new(child_hash) ==
            IF child_hash \in DOMAIN st.new_cells
            THEN ApplierRefs(cell, i + 1, cmd, old_cells, st,
                             Append(acc, st.new_cells[child_hash]))
            ELSE ran(child_hash, ApplierRun(child, cmd, old_cells, st))
    IN IF IsPrunedBranch(child)
       THEN IF Bit(child.m, cmd) = 1
            THEN from_old(CellHash(child, MaskLevel(child.m) - 1))
            ELSE ApplierRefs(cell, i + 1, cmd, old_cells, st, Append(acc, child))
       ELSE from_new(CellHash(child, cmd))

\* frames: the deepest nesting of Applier::run, 0 when it was not called
ApplyResult(e, c, collected, built) ==
    [err |-> e, cell |-> c, collected |-> collected, built |-> built, frames |-> 0,
     merkle_depth |-> <<>>, underflow |-> FALSE]

\* apply_ext after its two checks of the hashes, handing out the cell it built
\* when the hash of that cell is not new_hash
ApplyPruned_KeepTree(u, oldc, check_result) ==
    LET ran(old_cells, run) ==
            IF run.err # NoErr
            THEN ApplyResult(run.err, EmptyCell, DOMAIN old_cells, run.built)
            ELSE IF ~check_result \/ ReprHash(run.cell) = u.new_hash
            THEN ApplyResult(NoErr, run.cell, DOMAIN old_cells, run.built)
            ELSE ApplyResult("InvalidData", run.cell, DOMAIN old_cells, run.built)
        result(found, collected, run) ==
            [ran(collected.old_cells, run)
                EXCEPT !.frames = run.deepest,
                       !.merkle_depth = Append(found.merkle_depth, collected.merkle_depth),
                       !.underflow = found.underflow \/ collected.underflow]
        apply(found, collected) ==
            result(found, collected,
                   ApplierRun(u.new, 0, collected.old_cells,
                              [new_cells |-> EmptyCells, built |-> 0, err |-> NoErr,
                               cell |-> EmptyCell, frames |-> 0, deepest |-> 0]))
        collect(found) ==
            IF found.err # NoErr
            THEN [ApplyResult(found.err, EmptyCell, {}, 0)
                     EXCEPT !.merkle_depth = found.merkle_depth,
                            !.underflow = found.underflow]
            ELSE apply(found, CollectOldCells(oldc, found.old_cells))
    IN collect(FindOldCells(u))

\* apply_ext after its two checks of the hashes; check_result: whether the
\* hash of the cell built is compared with new_hash
ApplyPruned(u, oldc, check_result) ==
    LET ran(old_cells, run) ==
            IF run.err # NoErr
            THEN ApplyResult(run.err, EmptyCell, DOMAIN old_cells, run.built)
            ELSE IF ~check_result \/ ReprHash(run.cell) = u.new_hash
            THEN ApplyResult(NoErr, run.cell, DOMAIN old_cells, run.built)
            ELSE ApplyResult("InvalidData", EmptyCell, DOMAIN old_cells, run.built)
        result(found, collected, run) ==
            [ran(collected.old_cells, run)
                EXCEPT !.frames = run.deepest,
                       !.merkle_depth = Append(found.merkle_depth, collected.merkle_depth),
                       !.underflow = found.underflow \/ collected.underflow]
        apply(found, collected) ==
            result(found, collected,
                   ApplierRun(u.new, 0, collected.old_cells,
                              [new_cells |-> EmptyCells, built |-> 0, err |-> NoErr,
                               cell |-> EmptyCell, frames |-> 0, deepest |-> 0]))
        collect(found) ==
            IF found.err # NoErr
            THEN [ApplyResult(found.err, EmptyCell, {}, 0)
                     EXCEPT !.merkle_depth = found.merkle_depth,
                            !.underflow = found.underflow]
            ELSE apply(found, CollectOldCells(oldc, found.old_cells))
    IN collect(FindOldCells(u))

\* apply_ext without the comparison of the result with new_hash
ApplyExt_NoResultCheck(u, oldc) ==
    IF ReprHash(oldc) # u.old_hash THEN ApplyResult("InvalidData", EmptyCell, {}, 0)
    ELSE IF u.old_hash = u.new_hash THEN ApplyResult(NoErr, oldc, {}, 0)
    ELSE ApplyPruned(u, oldc, FALSE)

\* apply_ext with the comparison of the old hash made after the old cells
\* were collected
ApplyExt_LateOldCheck(u, oldc) ==
    IF u.old_hash = u.new_hash /\ ReprHash(oldc) = u.old_hash
    THEN ApplyResult(NoErr, oldc, {}, 0)
    ELSE LET late(a) ==
                 IF ReprHash(oldc) # u.old_hash
                 THEN ApplyResult("InvalidData", EmptyCell, a.collected, a.built)
                 ELSE a
         IN late(ApplyPruned(u, oldc, TRUE))

\* apply_ext that runs the applier also when old_hash = new_hash
ApplyExt_NoShortcut(u, oldc) ==
    IF ReprHash(oldc) # u.old_hash THEN ApplyResult("InvalidData", EmptyCell, {}, 0)
    ELSE ApplyPruned(u, oldc, TRUE)

\* MerkleUpdate::apply_ext
ApplyExt(u, oldc) ==
    IF ReprHash(oldc) # u.old_hash THEN ApplyResult("InvalidData", EmptyCell, {}, 0)
    ELSE IF u.old_hash = u.new_hash THEN ApplyResult(NoErr, oldc, {}, 0)
    ELSE ApplyPruned(u, oldc, TRUE)

\* ------------------------------------------------------- removed-cells diff

EmptyCounts == [h \in {} |-> 0]

RECURSIVE NewCellsWalk(_, _)
RECURSIVE NewCellsRefs(_, _, _)

\* compute_removed_cells, the hashes of the `new` side: st is [visited,
\* new_cells, merkle_depth, underflow]
NewCellsWalk(cell, st) == NewCellsRefs(cell, 1, st)

NewCellsRefs(cell, i, st) ==
    IF i > Len(cell.r) THEN Shallower(st, cell)
    ELSE
    LET child == cell.r[i]
        insert(st1) ==
            IF IsPrunedBranch(child) THEN NewCellsRefs(cell, i + 1, st1)
            ELSE NewCellsRefs(cell, i + 1, NewCellsWalk(child, Deeper(st1, child)))
        visit(h) ==
            IF h \in st.visited THEN NewCellsRefs(cell, i + 1, st)
            ELSE insert([st EXCEPT !.visited = @ \cup {h},
                                   !.new_cells = @ \cup {CellHash(child, st.merkle_depth)}])
    IN visit(ReprHash(child))

NewSideCells(u) ==
    NewCellsWalk(u.new,
                 Deeper([visited |-> {ReprHash(u.new)},
                         new_cells |-> {CellHash(u.new, 0)},
                         merkle_depth |-> 0, underflow |-> FALSE], u.new))

\* what compute_removed_cells answers: merkle_depth holds the counter as
\* debug_assert_eq!(merkle_depth, 0) found it, when it was reached
RemovedResult(e, diff) ==
    [err |-> e, diff |-> diff, merkle_depth |-> <<>>, underflow |-> FALSE]

RECURSIVE RemovedWalk(_, _, _, _)

\* the traversal that stops below the root: no child is followed
RemovedWalk_NoDescent(cell, i, new_cells, result) ==
    IF i > Len(cell.r) THEN result
    ELSE
    LET visit(hash) ==
            IF hash \in DOMAIN result
            THEN RemovedWalk(cell, i + 1, new_cells, [result EXCEPT ![hash] = @ + 1])
            ELSE RemovedWalk(cell, i + 1, new_cells, (hash :> 1) @@ result)
    IN visit(ReprHash(cell.r[i]))

\* compute_removed_cells, "Traverse old cells": the children of `cell` from
\* the i-th on; result maps hashes to counts
RemovedWalk(cell, i, new_cells, result) ==
    IF i > Len(cell.r) THEN result
    ELSE
    LET child == cell.r[i]
        insert(hash, r1) ==
            IF ReferenceCount(child) = 0 \/ hash \in new_cells
            THEN RemovedWalk(cell, i + 1, new_cells, r1)
            ELSE RemovedWalk(cell, i + 1, new_cells, RemovedWalk(child, 1, new_cells, r1))
        visit(hash) ==
            IF hash \in DOMAIN result
            THEN RemovedWalk(cell, i + 1, new_cells, [result EXCEPT ![hash] = @ + 1])
            ELSE insert(hash, (hash :> 1) @@ result)
    IN visit(ReprHash(child))

\* MerkleUpdate::compute_removed_cells
ComputeRemovedCells(u, oldc) ==
    LET traverse(h, n) ==
            [RemovedResult(NoErr, IF h \in n.new_cells THEN (h :> 1)
                                  ELSE RemovedWalk(oldc, 1, n.new_cells, (h :> 1)))
                EXCEPT !.merkle_depth = <<n.merkle_depth>>,
                       !.underflow = n.underflow]
        checked(h) ==
            IF h # u.old_hash \/ CellHash(u.old, 0) # h
            THEN RemovedResult("InvalidData", EmptyCounts)
            ELSE IF u.old_hash = u.new_hash THEN RemovedResult(NoErr, EmptyCounts)
            ELSE traverse(h, NewSideCells(u))
    IN checked(ReprHash(oldc))

\* ---------------------------------------------- reference-counting store

RECURSIVE StoreWalk(_, _, _)

\* RefsStorage::store_cell, the loop over the references of `cell`
StoreWalk(cell, i, refs) ==
    IF i > Len(cell.r) THEN refs
    ELSE
    LET child == cell.r[i]
        visit(hash) ==
            IF hash \in DOMAIN refs
            THEN StoreWalk(cell, i + 1, [refs EXCEPT ![hash] = @ + 1])
            ELSE StoreWalk(cell, i + 1, StoreWalk(child, 1, (hash :> 1) @@ refs))
    IN visit(ReprHash(child))

StoreCell(refs, root) ==
    LET count(h) ==
            IF h \in DOMAIN refs THEN [refs EXCEPT ![h] = @ + 1] ELSE (h :> 1) @@ refs
    IN StoreWalk(root, 1, count(ReprHash(root)))

\* RefsStorage::remove_batch: the retained counts, whether the batch was used
\* up, and whether a u32 subtraction overflowed
RemoveBatch(refs, batch) ==
    LET sub(h) == IF h \in DOMAIN batch THEN refs[h] - batch[h] ELSE refs[h]
        kept == {h \in DOMAIN refs : sub(h) # 0}
    IN [refs |-> [h \in kept |-> sub(h)],
        empty |-> DOMAIN batch \subseteq DOMAIN refs,
        overflow |-> \E h \in DOMAIN refs : sub(h) < 0]

\* tests::visit_all_cells
RECURSIVE VisitAllCells(_)
VisitAllCells(cell) ==
    {ReprHash(cell)} \cup UNION {VisitAllCells(cell.r[i]) : i \in DOMAIN cell.r}

\* ------------------------------------------------- Store / Load of records

\* a CellBuilder: exotic flag, level mask set (or -1), data and references
NewBuilder == [x |-> FALSE, lm |-> -1, d |-> EmptyData, r |-> <<>>]

HasCapacity(b, bits, refs) == b.d.n + bits <= MaxBitLen /\ Len(b.r) + refs <= MaxRefCount

StoreU8(b, v) == [b EXCEPT !.d.n = @ + 8, !.d.tag = v % 256]
StoreU256(b, h) == [b EXCEPT !.d.n = @ + 256, !.d.hs = Append(@, h)]
StoreU16(b, v) == [b EXCEPT !.d.n = @ + 16, !.d.ds = Append(@, v % U16)]
\* a big-endian u32 is its high and its low 16 bits
StoreU32(b, v) ==
    [b EXCEPT !.d.n = @ + 32, !.d.ds = @ \o <<(v \div U16) % U16, v % U16>>]
StoreReference(b, c) == [b EXCEPT !.r = Append(@, c)]

\* store_bit_one that takes one bit more than a cell holds
StoreBitOne_OneMore(b) ==
    IF b.d.n <= MaxBitLen
    THEN [err |-> NoErr, b |-> [b EXCEPT !.d.n = @ + 1, !.d.bits = @ + 1]]
    ELSE [err |-> "CellOverflow", b |-> b]

\* CellBuilder::store_bit_one
StoreBitOne(b) ==
    IF b.d.n < MaxBitLen
    THEN [err |-> NoErr, b |-> [b EXCEPT !.d.n = @ + 1, !.d.bits = @ + 1]]
    ELSE [err |-> "CellOverflow", b |-> b]

BuilderBuild(b) == BuildCell(b.x, b.lm, b.d, b.r)

\* <MerkleProof as Store>::store_into
ProofStoreInto(p, b) ==
    IF ~HasCapacity(b, MerkleProofBits, MerkleProofRefs)
    THEN [err |-> "CellOverflow", b |-> b]
    ELSE LET b1 == [b EXCEPT !.lm = MaskVirtualize(p.cell.m, 1), !.x = TRUE]
         IN [err |-> NoErr,
             b |-> StoreReference(
                       StoreU16(StoreU256(StoreU8(b1, TagMerkleProof), p.hash), p.depth),
                       p.cell)]

\* store_into with the two depths packed the other way round
UpdateStoreInto_Swapped(u, b) ==
    IF ~HasCapacity(b, MerkleUpdateBits, MerkleUpdateRefs)
    THEN [err |-> "CellOverflow", b |-> b]
    ELSE LET b1 == [b EXCEPT !.x = TRUE]
             b2 == StoreU256(StoreU256(StoreU8(b1, TagMerkleUpdate), u.old_hash),
                             u.new_hash)
             b3 == StoreU32(b2, u.new_depth * U16 + u.old_depth)
         IN [err |-> NoErr, b |-> StoreReference(StoreReference(b3, u.old), u.new)]

\* <MerkleUpdate as Store>::store_into
UpdateStoreInto(u, b) ==
    IF ~HasCapacity(b, MerkleUpdateBits, MerkleUpdateRefs)
    THEN [err |-> "CellOverflow", b |-> b]
    ELSE LET b1 == [b EXCEPT !.x = TRUE]
             b2 == StoreU256(StoreU256(StoreU8(b1, TagMerkleUpdate), u.old_hash),
                             u.new_hash)
             b3 == StoreU32(b2, u.old_depth * U16 + u.new_depth)
         IN [err |-> NoErr, b |-> StoreReference(StoreReference(b3, u.old), u.new)]

\* a CellSlice over all of a cell (Cell::parse reads exotic cells too)
FullSlice(c) == [cell |-> c, bits |-> c.d.n, refs |-> Len(c.r)]

SliceHasRemaining(s, bits, refs) == s.bits >= bits /\ s.refs >= refs

\* load_from without the comparison of the depth
ProofLoadFrom_NoDepthCheck(s) ==
    LET c == s.cell
        bad(e) == [err |-> e, hash |-> EmptyCellHash, depth |-> 0, cell |-> EmptyCell,
                   rest |-> s]
    IN IF ~SliceHasRemaining(s, MerkleProofBits, MerkleProofRefs)
       THEN bad("CellUnderflow")
       ELSE IF c.d.tag # TagMerkleProof THEN bad("InvalidCell")
       ELSE LET res == [hash |-> c.d.hs[1], depth |-> c.d.ds[1], cell |-> c.r[1]]
            IN IF CellHash(res.cell, 0) = res.hash
               THEN [err |-> NoErr, hash |-> res.hash, depth |-> res.depth,
                     cell |-> res.cell,
                     rest |-> [s EXCEPT !.bits = @ - MerkleProofBits,
                                        !.refs = @ - MerkleProofRefs]]
               ELSE bad("InvalidCell")

\* <MerkleProof as Load>::load_from; rest is the slice afterwards
ProofLoadFrom(s) ==
    LET c == s.cell
        bad(e) == [err |-> e, hash |-> EmptyCellHash, depth |-> 0, cell |-> EmptyCell,
                   rest |-> s]
    IN IF ~SliceHasRemaining(s, MerkleProofBits, MerkleProofRefs)
       THEN bad("CellUnderflow")
       ELSE IF c.d.tag # TagMerkleProof THEN bad("InvalidCell")
       ELSE LET res == [hash |-> c.d.hs[1], depth |-> c.d.ds[1], cell |-> c.r[1]]
            IN IF CellHash(res.cell, 0) = res.hash /\ CellDepth(res.cell, 0) = res.depth
               THEN [err |-> NoErr, hash |-> res.hash, depth |-> res.depth,
                     cell |-> res.cell,
                     rest |-> [s EXCEPT !.bits = @ - MerkleProofBits,
                                        !.refs = @ - MerkleProofRefs]]
               ELSE bad("InvalidCell")

\* load_from that advances the slice before it compares the hashes and depths
UpdateLoadFrom_AdvanceFirst(s) ==
    LET c == s.cell
        advanced == [s EXCEPT !.bits = @ - MerkleUpdateBits, !.refs = @ - MerkleUpdateRefs]
        bad(e, rest) ==
            [err |-> e, old_hash |-> EmptyCellHash, new_hash |-> EmptyCellHash,
             old_depth |-> 0, new_depth |-> 0, old |-> EmptyCell,
             new |-> EmptyCell, rest |-> rest]
    IN IF ~SliceHasRemaining(s, MerkleUpdateBits, MerkleUpdateRefs)
       THEN bad("CellUnderflow", s)
       ELSE IF c.d.tag # TagMerkleUpdate THEN bad("InvalidCell", s)
       ELSE LET res == [old_hash |-> c.d.hs[1], new_hash |-> c.d.hs[2],
                        old_depth |-> c.d.ds[1], new_depth |-> c.d.ds[2],
                        old |-> c.r[1], new |-> c.r[2]]
            IN IF /\ CellHash(res.old, 0) = res.old_hash
                  /\ CellDepth(res.old, 0) = res.old_depth
                  /\ CellHash(res.new, 0) = res.new_hash
                  /\ CellDepth(res.new, 0) = res.new_depth
               THEN [err |-> NoErr, old_hash |-> res.old_hash, new_hash |-> res.new_hash,
                     old_depth |-> res.old_depth, new_depth |-> res.new_depth,
                     old |-> res.old, new |-> res.new, rest |-> advanced]
               ELSE bad("InvalidCell", advanced)

\* <MerkleUpdate as Load>::load_from
UpdateLoadFrom(s) ==
    LET c == s.cell
        bad(e) == [err |-> e, old_hash |-> EmptyCellHash, new_hash |-> EmptyCellHash,
                   old_depth |-> 0, new_depth |-> 0, old |-> EmptyCell,
                   new |-> EmptyCell, rest |-> s]
    IN IF ~SliceHasRemaining(s, MerkleUpdateBits, MerkleUpdateRefs)
       THEN bad("CellUnderflow")
       ELSE IF c.d.tag # TagMerkleUpdate THEN bad("InvalidCell")
       ELSE LET res == [old_hash |-> c.d.hs[1], new_hash |-> c.d.hs[2],
                        old_depth |-> c.d.ds[1], new_depth |-> c.d.ds[2],
                        old |-> c.r[1], new |-> c.r[2]]
            IN IF /\ CellHash(res.old, 0) = res.old_hash
                  /\ CellDepth(res.old, 0) = res.old_depth
                  /\ CellHash(res.new, 0) = res.new_hash
                  /\ CellDepth(res.new, 0) = res.new_depth
               THEN [err |-> NoErr, old_hash |-> res.old_hash, new_hash |-> res.new_hash,
                     old_depth |-> res.old_depth, new_depth |-> res.new_depth,
                     old |-> res.old, new |-> res.new,
                     rest |-> [s EXCEPT !.bits = @ - MerkleUpdateBits,
                                        !.refs = @ - MerkleUpdateRefs]]
               ELSE bad("InvalidCell")

\* MerkleProof::default / MerkleUpdate::default
DefaultProof == [hash |-> EmptyCellHash, depth |-> 0, cell |-> EmptyCell]

DefaultUpdate ==
    [old_hash |-> EmptyCellHash, new_hash |-> EmptyCellHash, old_depth |-> 0,
     new_depth |-> 0, old |-> EmptyCell, new |-> EmptyCell]

\* ------------------------------------------------------------ output actions

\* cells whose data is kept bit by bit: [x, bits, refs]
RawCell(bits, refs) == [x |-> FALSE, bits |-> bits, refs |-> refs]

RawBuilder == [bits |-> <<>>, refs |-> <<>>]

\* the eight bits of a byte, most significant first, and back
ByteBits(v) == [i \in 1..8 |-> (v \div (2 ^ (8 - i))) % 2]

BitsByte(s) ==
    s[1] * 128 + s[2] * 64 + s[3] * 32 + s[4] * 16 + s[5] * 8 + s[6] * 4 + s[7] * 2 + s[8]

RECURSIVE BytesBits(_)
BytesBits(bs) == IF bs = <<>> THEN <<>> ELSE ByteBits(Head(bs)) \o BytesBits(Tail(bs))

BitsBytes(s) == [k \in 1..(Len(s) \div 8) |-> BitsByte(SubSeq(s, 8 * k - 7, 8 * k))]

\* ok!(first) followed by then(builder or slice)
AndThen(first, then(_)) == IF first.err # NoErr THEN first ELSE then(first)

\* CellBuilder::store_raw and what is expressed by it
RawStoreBits(b, bits) ==
    IF Len(b.bits) + Len(bits) > MaxBitLen THEN [err |-> "CellOverflow", b |-> b]
    ELSE [err |-> NoErr, b |-> [b EXCEPT !.bits = @ \o bits]]

RawStoreU8(b, v) == RawStoreBits(b, ByteBits(v % 256))
\* a u32 and a u256 are given by their big-endian bytes
RawStoreU32(b, bytes) == RawStoreBits(b, BytesBits(bytes))
RawStoreU256(b, bytes) == RawStoreBits(b, BytesBits(bytes))

RawStoreReference(b, c) ==
    IF Len(b.refs) >= MaxRefCount THEN [err |-> "CellOverflow", b |-> b]
    ELSE [err |-> NoErr, b |-> [b EXCEPT !.refs = Append(@, c)]]

RawBuild(b) == RawCell(b.bits, b.refs)

\* Cell::as_slice: the bits and references not read yet
AsSlice(c) ==
    IF "bits" \in DOMAIN c
    THEN [err |-> NoErr, s |-> [bits |-> c.bits, refs |-> c.refs]]
    ELSE IF IsPrunedBranch(c)
    THEN [err |-> "PrunedBranchAccess", s |-> [bits |-> <<>>, refs |-> <<>>]]
    ELSE [err |-> NoErr, s |-> [bits |-> [i \in 1..c.d.n |-> 1], refs |-> c.r]]

\* CellSlice::load_bits and what is expressed by it: v is the value read,
\* s the slice after the read
RawLoadBits(s, n) ==
    IF Len(s.bits) < n THEN [err |-> "CellUnderflow", v |-> <<>>, s |-> s]
    ELSE [err |-> NoErr, v |-> SubSeq(s.bits, 1, n),
          s |-> [s EXCEPT !.bits = SubSeq(@, n + 1, Len(@))]]

RawLoadBytes(s, n) ==
    LET bytes(l) == IF l.err # NoErr THEN l ELSE [l EXCEPT !.v = BitsBytes(@)]
    IN bytes(RawLoadBits(s, 8 * n))

RawLoadU8(s) ==
    LET byte(l) == IF l.err # NoErr THEN [l EXCEPT !.v = 0] ELSE [l EXCEPT !.v = @[1]]
    IN byte(RawLoadBytes(s, 1))

RawLoadU32(s) == RawLoadBytes(s, 4)
RawLoadU256(s) == RawLoadBytes(s, 32)

\* CellSlice::load_reference / load_reference_cloned
RawLoadReference(s) ==
    IF s.refs = <<>> THEN [err |-> "CellUnderflow", v |-> EmptyCell, s |-> s]
    ELSE [err |-> NoErr, v |-> Head(s.refs), s |-> [s EXCEPT !.refs = Tail(@)]]

IsDataEmpty(s) == s.bits = <<>>
IsRefsEmpty(s) == s.refs = <<>>

None == [some |-> FALSE]
Some(v) == [some |-> TRUE, v |-> v]

TAG_SEND_MSG == <<14, 195, 200, 109>>      \* 0x0ec3c86d
TAG_SET_CODE == <<173, 77, 224, 142>>      \* 0xad4de08e
TAG_RESERVE == <<54, 230, 184, 9>>         \* 0x36e6b809
TAG_CHANGE_LIB == <<38, 250, 29, 212>>     \* 0x26fa1dd4
TAG_COPYLEFT == <<36, 72, 111, 122>>       \* 0x24486f7a

SendMsg(mode, out_msg) == [kind |-> "SendMsg", mode |-> mode, out_msg |-> out_msg]
SetCode(new_code) == [kind |-> "SetCode", new_code |-> new_code]
ReserveCurrency(mode, value) == [kind |-> "ReserveCurrency", mode |-> mode, value |-> value]
ChangeLibrary(mode, hash, code) ==
    [kind |-> "ChangeLibrary", mode |-> mode, hash |-> hash, code |-> code]
CopyLeft(license, address) ==
    [kind |-> "CopyLeft", license |-> license, address |-> address]

\* CurrencyCollection: tokens are the bytes of the amount without leading
\* zeros, behind their number in four bits; other is the root of the
\* dictionary of the extra currencies, behind one bit
CurrencyStoreInto(value, b) ==
    LET other(r) ==
            IF ~value.other.some THEN RawStoreBits(r.b, <<0>>)
            ELSE AndThen(RawStoreBits(r.b, <<1>>),
                         LAMBDA r1 : RawStoreReference(r1.b, value.other.v))
        bytes(r) == AndThen(RawStoreBits(r.b, BytesBits(value.tokens)), other)
    IN AndThen(RawStoreBits(b, SubSeq(ByteBits(Len(value.tokens)), 5, 8)), bytes)

CurrencyLoadFrom(s) ==
    LET made(tokens, l) == [l EXCEPT !.v = [tokens |-> tokens, other |-> @]]
        root(l) == [l EXCEPT !.v = IF l.err = NoErr THEN Some(@) ELSE None]
        other(tokens, l) ==
            IF l.err # NoErr THEN [l EXCEPT !.v = None]
            ELSE IF l.v = <<0>> THEN [l EXCEPT !.v = None]
            ELSE root(RawLoadReference(l.s))
        bytes(l) ==
            IF l.err # NoErr THEN l
            ELSE made(l.v, other(l.v, RawLoadBits(l.s, 1)))
        len(l) ==
            IF l.err # NoErr THEN l
            ELSE bytes(RawLoadBytes(l.s, BitsByte(<<0, 0, 0, 0>> \o l.v)))
    IN len(RawLoadBits(s, 4))

\* <OutAction as Store>::store_into
OutActionStoreInto(a, b) ==
    IF a.kind = "SendMsg"
    THEN AndThen(AndThen(RawStoreU32(b, TAG_SEND_MSG),
                         LAMBDA r : RawStoreU8(r.b, a.mode)),
                 LAMBDA r : RawStoreReference(r.b, a.out_msg))
    ELSE IF a.kind = "SetCode"
    THEN AndThen(RawStoreU32(b, TAG_SET_CODE),
                 LAMBDA r : RawStoreReference(r.b, a.new_code))
    ELSE IF a.kind = "ReserveCurrency"
    THEN AndThen(AndThen(RawStoreU32(b, TAG_RESERVE),
                         LAMBDA r : RawStoreU8(r.b, a.mode)),
                 LAMBDA r : CurrencyStoreInto(a.value, r.b))
    ELSE IF a.kind = "ChangeLibrary"
    THEN AndThen(AndThen(AndThen(RawStoreU32(b, TAG_CHANGE_LIB),
                                 LAMBDA r : RawStoreU8(r.b, a.mode)),
                         LAMBDA r : IF a.hash.some THEN RawStoreU256(r.b, a.hash.v)
                                    ELSE r),
                 LAMBDA r : IF a.code.some THEN RawStoreReference(r.b, a.code.v)
                            ELSE r)
    ELSE AndThen(AndThen(RawStoreU32(b, TAG_COPYLEFT),
                         LAMBDA r : RawStoreU8(r.b, a.license)),
                 LAMBDA r : RawStoreU256(r.b, a.address))

\* the loader of one field after another: l is the load before, with the
\* fields read so far in l.v; a failed load keeps the slice where it stopped
Field(l, load(_), put(_, _)) ==
    LET got(n) == IF n.err # NoErr THEN [n EXCEPT !.v = l.v]
                  ELSE [n EXCEPT !.v = put(l.v, n.v)]
    IN IF l.err # NoErr THEN l ELSE got(load(l.s))

\* <OutAction as Load>::load_from
OutActionLoadFrom(s) ==
    LET start(a, t) == [t EXCEPT !.v = a]
        send_msg(t) ==
            Field(Field(start(SendMsg(0, EmptyCell), t),
                        RawLoadU8, LAMBDA a, v : [a EXCEPT !.mode = v]),
                  RawLoadReference, LAMBDA a, v : [a EXCEPT !.out_msg = v])
        set_code(t) ==
            Field(start(SetCode(EmptyCell), t),
                  RawLoadReference, LAMBDA a, v : [a EXCEPT !.new_code = v])
        reserve(t) ==
            Field(Field(start(ReserveCurrency(0, [tokens |-> <<>>, other |-> None]), t),
                        RawLoadU8, LAMBDA a, v : [a EXCEPT !.mode = v]),
                  CurrencyLoadFrom, LAMBDA a, v : [a EXCEPT !.value = v])
        \* let load_hash = mode.is_empty()
        contents(m) ==
            IF m.err # NoErr THEN m
            ELSE IF m.v.mode = 0
            THEN Field(m, RawLoadU256, LAMBDA a, v : [a EXCEPT !.hash = Some(v)])
            ELSE Field(m, RawLoadReference, LAMBDA a, v : [a EXCEPT !.code = Some(v)])
        change_lib(t) ==
            contents(Field(start(ChangeLibrary(0, None, None), t),
                           RawLoadU8, LAMBDA a, v : [a EXCEPT !.mode = v]))
        copyleft(t) ==
            Field(Field(start(CopyLeft(0, <<>>), t),
                        RawLoadU8, LAMBDA a, v : [a EXCEPT !.license = v]),
                  RawLoadU256, LAMBDA a, v : [a EXCEPT !.address = v])
        tagged(t) ==
            IF t.err # NoErr THEN t
            ELSE IF t.v = TAG_SEND_MSG THEN send_msg(t)
            ELSE IF t.v = TAG_SET_CODE THEN set_code(t)
            ELSE IF t.v = TAG_RESERVE THEN reserve(t)
            ELSE IF t.v = TAG_CHANGE_LIB THEN change_lib(t)
            ELSE IF t.v = TAG_COPYLEFT THEN copyleft(t)
            ELSE [t EXCEPT !.err = "InvalidTag"]
    IN tagged(RawLoadU32(s))

\* the items of the iterator: None, Some(Ok(action)), Some(Err(e))
ItemNone == [kind |-> "None"]
ItemOk(a) == [kind |-> "Ok", action |-> a]
ItemErr(err) == [kind |-> "Err", err |-> err]

\* <OutActionsRevIter as Iterator>::next on an iterator whose slice is s: the
\* item returned and the slice the iterator holds afterwards
OutActionsRevIterNext(s) ==
    LET rebased(action, sl) ==
            IF sl.err # NoErr THEN [item |-> ItemErr(sl.err), slice |-> action.s]
            ELSE [item |-> ItemOk(action.v), slice |-> sl.s]
        loaded(prev_cell, action) ==
            IF action.err # NoErr THEN [item |-> ItemErr(action.err), slice |-> action.s]
            ELSE rebased(action, AsSlice(prev_cell))
        referenced(ref) ==
            IF ref.err # NoErr
            THEN [item |-> IF IsDataEmpty(s) /\ IsRefsEmpty(s) THEN ItemNone
                           ELSE ItemErr("InvalidData"),
                  slice |-> s]
            ELSE loaded(ref.v, OutActionLoadFrom(ref.s))
    IN referenced(RawLoadReference(s))

\* ---------------------------------------------------------- input universe

\* ordinary leaves: the empty cell and the cell holding a single one-bit
Leaves == {[x |-> FALSE, m |-> 0, d |-> OrdData(v), r |-> <<>>] : v \in {0, 1}}

\* ordinary trees of exactly n cells (unfolded), one or two references each
RECURSIVE Trees(_)
Trees(n) ==
    IF n = 1 THEN Leaves
    ELSE LET one == {<<c>> : c \in Trees(n - 1)}
             two == UNION {{<<a, b>> : a \in Trees(i), b \in Trees(n - 1 - i)} :
                               i \in 1..(n - 2)}
         IN {[x |-> FALSE, m |-> 0, d |-> EmptyData, r |-> rs] : rs \in one \cup two}

TreesUpTo(k) == UNION {Trees(n) : n \in 1..k}

\* the Merkle proof cell of tree t pruned by filter f
ProofCell(t, f) == BuilderBuild(ProofStoreInto(ProofBuild(t, f), NewBuilder).b).cell

\* Merkle proof cells of n cells in all: the proof of an ordinary tree, whole
\* or with everything below its root pruned
MerkleCells(n) ==
    IF n < 2 THEN {}
    ELSE UNION {{ProofCell(t, SetFilter(VisitAllCells(t))),
                 ProofCell(t, SetFilter({ReprHash(t)}))} : t \in Trees(n - 1)}

\* trees of exactly n cells in which Merkle proof cells may occur
RECURSIVE MTrees(_)
MTrees(n) ==
    IF n = 1 THEN Leaves
    ELSE LET one == {<<c>> : c \in MTrees(n - 1)}
             two == UNION {{<<a, b>> : a \in MTrees(i), b \in MTrees(n - 1 - i)} :
                               i \in 1..(n - 2)}
         IN {[x |-> FALSE, m |-> 0, d |-> EmptyData, r |-> rs] : rs \in one \cup two}
            \cup MerkleCells(n)

MTreesUpTo(k) == UNION {MTrees(n) : n \in 1..k}

\* cells of level 1: ordinary trees of up to k cells with every child of the
\* root that has references replaced by a pruned branch (the cell of a proof)
PrunedTreesUpTo(k) ==
    {c \in {ProofBuild(t, SetFilter({ReprHash(t)})).cell : t \in TreesUpTo(k)} :
        c.m # 0}

\* cells as they may come from outside, over the children o and n: data laid
\* out as a Merkle proof (tag, hash, depth) or as a Merkle update (tag, two
\* hashes, two depths), one bit short, exact, or one bit long, with a right or
\* a wrong tag, hashes and depths that are or are not those of the children,
\* and zero to two references; exotic or ordinary, as far as a cell of that
\* kind can be built
ParsedCells(o, n) ==
    LET tags == {TagMerkleProof, TagMerkleUpdate, 0}
        hashes == {CellHash(o, 0), CellHash(n, 0), ReprHash(o)}
        depths == {CellDepth(o, 0), CellDepth(o, 0) + 1, CellDepth(n, 0)}
        refs == {<<>>, <<o>>, <<o, n>>, <<n, o>>}
        data(tag, len, hs, ds) ==
            [n |-> len, tag |-> tag, bits |-> 0, hs |-> hs, ds |-> ds]
        as_proof ==
            {data(tag, len, <<h>>, <<d>>) :
                tag \in tags, len \in (MerkleProofBits - 1)..(MerkleProofBits + 1),
                h \in hashes, d \in depths}
        as_update ==
            {data(tag, len, <<h.a, h.b>>, <<d.a, d.b>>) :
                tag \in tags \ {TagMerkleProof},
                len \in (MerkleUpdateBits - 1)..(MerkleUpdateBits + 1),
                h \in [a : {CellHash(o, 0), ReprHash(o)}, b : {CellHash(n, 0), CellHash(o, 0)}],
                d \in [a : {CellDepth(o, 0), CellDepth(o, 0) + 1},
                       b : {CellDepth(n, 0), CellDepth(n, 0) + 1}]}
        built == {BuildCell(x, -1, d, rs) :
                     x \in BOOLEAN, d \in as_proof \cup as_update, rs \in refs}
    IN {b.cell : b \in {a \in built : a.err = NoErr}}

\* the cells of the tree of c
RECURSIVE CellsOf(_)
CellsOf(c) == {c} \cup UNION {CellsOf(c.r[i]) : i \in DOMAIN c.r}

\* every filter over the cells of c: each hash is skipped, included, or
\* included with its subtree
AllFilters(c) ==
    LET H == VisitAllCells(c)
    IN UNION {{[inv |-> FALSE, incl |-> i, sub |-> sb] : i \in SUBSET (H \ sb)} :
                 sb \in SUBSET H}

\* the filters tried by the update builder: every cell of old, no cell, the
\* root of old only
Filters(c) == {SetFilter(VisitAllCells(c)), SetFilter({}), SetFilter({ReprHash(c)})}

\* new trees made of cells of c: a new root over one or two cells taken from
\* below the root of c
Reusing(c) ==
    LET below == UNION {CellsOf(c.r[i]) : i \in DOMAIN c.r}
    IN {[x |-> FALSE, m |-> 0, d |-> EmptyData, r |-> rs] :
           rs \in {<<a>> : a \in below} \cup {<<a, b>> : a \in below, b \in below}}

\* filters for the resolver: those of Filters, every cell but one, and the
\* root with one cell included with its subtree
ResolverFilters(c) ==
    LET H == VisitAllCells(c)
    IN Filters(c)
       \cup {SetFilter(H \ {h}) : h \in H}
       \cup {[inv |-> FALSE, incl |-> {ReprHash(c)} \ {h}, sub |-> {h}] : h \in H}

\* -------------------------------------------------------------- the system

\* 32 bytes, the last of them v
Bytes32(v) == [i \in 1..32 |-> IF i = 32 THEN v ELSE 0]

ActionHashes == {Bytes32(0), Bytes32(7)}

\* the amounts 0, 1 and 256, without or with extra currencies
Currencies ==
    {[tokens |-> t, other |-> o] :
        t \in {<<>>, <<1>>, <<1, 0>>}, o \in {None, Some(EmptyCell)}}

\* output actions of every variant; the modes of ChangeLibrary are no flag,
\* REMOVE, PRIVATE and PUBLIC
OutActions ==
    {SendMsg(m, c) : m \in {0, 3}, c \in Leaves}
    \cup {SetCode(c) : c \in Leaves}
    \cup {ReserveCurrency(m, v) : m \in {0, 2}, v \in Currencies}
    \cup {ChangeLibrary(m, h, c) :
              m \in {0, 1, 3, 5},
              h \in {None} \cup {Some(b) : b \in ActionHashes},
              c \in {None} \cup {Some(l) : l \in Leaves}}
    \cup {CopyLeft(l, a) : l \in {0, 7}, a \in ActionHashes}

\* trees in which a tree t occurs twice: as a child of the root and as the
\* child of a Merkle proof cell that is the other child of the root
Nested ==
    LET both(t, mc) ==
            {[x |-> FALSE, m |-> 0, d |-> EmptyData, r |-> rs] :
                rs \in {<<t, mc>>, <<mc, t>>}}
    IN UNION {both(t, ProofCell(t, SetFilter(VisitAllCells(t)))) :
                 t \in Trees(MaxTwiceNodes)}

\* the actions put in lists: one of each variant, a ChangeLibrary with a hash
\* in each of the modes no flag and REMOVE, and one with a code cell in each
\* of the modes no flag and PUBLIC
\* trees whose root or inner cells are Merkle proof cells, a Merkle cell
\* below a Merkle cell included
MerkleSides ==
    MTreesUpTo(MaxMerkleNodes)
    \cup {ProofCell(t, SetFilter(VisitAllCells(t))) : t \in MTrees(MaxMerkleNodes)}

IterActions ==
    {SetCode(EmptyCell),
     SendMsg(3, CHOOSE c \in Leaves : c # EmptyCell),
     ReserveCurrency(2, [tokens |-> <<1, 0>>, other |-> Some(EmptyCell)]),
     CopyLeft(7, Bytes32(7)),
     ChangeLibrary(0, Some(Bytes32(7)), None),
     ChangeLibrary(1, Some(Bytes32(7)), None),
     ChangeLibrary(0, None, Some(EmptyCell)),
     ChangeLibrary(5, None, Some(EmptyCell))}

\* the list cell of action a behind the list prev: the reference to prev,
\* then the action
ListCell(prev, a) ==
    RawBuild(AndThen(RawStoreReference(RawBuilder, prev),
                     LAMBDA r : OutActionStoreInto(a, r.b)).b)

\* the well-formed lists of n actions, ending in an empty cell, with their
\* actions from the last stored to the first
RECURSIVE ActionLists(_)
ActionLists(n) ==
    IF n = 0 THEN {[cell |-> RawCell(<<>>, <<>>), actions |-> <<>>, wf |-> TRUE]}
    ELSE {[cell |-> ListCell(l.cell, a), actions |-> <<a>> \o l.actions, wf |-> TRUE] :
             l \in ActionLists(n - 1), a \in IterActions}

\* cells that are no list: data without a reference, a reference with too few
\* bits, an unknown tag, a reference without data, and a list cell whose
\* previous cell is a pruned branch
NoLists ==
    LET no_list(c) == [cell |-> c, actions |-> <<>>, wf |-> FALSE]
        empty == RawCell(<<>>, <<>>)
        pruned == MakePrunedBranch([EmptyCell EXCEPT !.r = <<EmptyCell>>], 0).cell
    IN {no_list(c) : c \in {RawCell(<<1>>, <<>>), RawCell(<<1>>, <<empty>>),
                            RawCell(BytesBits(<<0, 0, 0, 0>>), <<empty>>),
                            RawCell(<<>>, <<empty>>),
                            ListCell(pruned, SetCode(EmptyCell))}}

VARIABLES
    pc,        \* what has been done so far
    old, new,  \* the roots given to MerkleUpdate::create (old: to MerkleProof::create)
    filter,    \* the filter given to it
    upd,       \* a MerkleUpdate: the result of MerkleUpdateBuilder::build, or hand-made
    target,    \* the cell the update is applied to
    applied,   \* the result of MerkleUpdate::apply_ext
    removed,   \* the result of MerkleUpdate::compute_removed_cells
    store,     \* the reference-count store of the tests
    proof,     \* the result of MerkleProofBuilder::build
    loaded,    \* the record parsed back from the cell a record was stored into
    forcell,   \* the result of MerkleProof::create_for_cell(old, child_hash).build()
    ext,       \* the result of MerkleProofExtBuilder::build_raw_ext
    filter2,   \* a second filter with the same answers on the cells of old and new
    rerun,     \* the results of a second run of what was run, with filter2
    resolved,  \* what the update builder computed on its way: pruned map, changed cells
    builder,   \* a CellBuilder and the result of the last call made on it
    action,    \* an OutAction, the builder it was stored into, what was loaded back
    iter       \* an OutActionsRevIter and the items it has returned

vars == <<pc, old, new, filter, upd, target, applied, removed, store, proof, loaded,
          forcell, ext, filter2, rerun, resolved, builder, action, iter>>

NoUpdate == MkUpdate("None", EmptyCellHash, EmptyCellHash, 0, 0, EmptyCell, EmptyCell, <<>>, 0)
NoApply == ApplyResult("None", EmptyCell, {}, 0)
NoRemoved == RemovedResult("None", EmptyCounts)
NoStore == [refs |-> EmptyCounts, empty |-> TRUE, overflow |-> FALSE]
NoProof == [err |-> "None", hash |-> EmptyCellHash, depth |-> 0, cell |-> EmptyCell,
            checked |-> <<>>, built |-> 0, stack |-> 0]
NoForCell == [child_hash |-> EmptyCellHash, p |-> NoProof]
NoExt == [err |-> "None", cell |-> EmptyCell, pruned |-> EmptyFlags,
          checked |-> <<>>, built |-> 0]
NoRerun == [kind |-> "None", upd |-> NoUpdate, applied |-> NoApply, proof |-> NoProof]
NoResolved == [err |-> "None", pruned |-> EmptyFlags, changed |-> {}, frames |-> 0]
NoBuilder == [b |-> NewBuilder, err |-> "None", cell |-> EmptyCell, failed |-> 0]
NoLoaded == [kind |-> "None", err |-> "None", cell |-> EmptyCell,
             u |-> UpdateLoadFrom(FullSlice(EmptyCell)),
             p |-> ProofLoadFrom(FullSlice(EmptyCell))]
NoAction ==
    [a |-> SetCode(EmptyCell), stored |-> [err |-> "None", b |-> RawBuilder],
     loaded |-> [err |-> "None", v |-> SetCode(EmptyCell), s |-> AsSlice(EmptyCell).s]]
NoIter ==
    [list |-> EmptyCell, actions |-> <<>>, wf |-> FALSE, slice |-> AsSlice(EmptyCell).s,
     items |-> <<>>, calls |-> <<>>]

Blank ==
    /\ pc = "start"
    /\ upd = NoUpdate
    /\ target = EmptyCell
    /\ applied = NoApply
    /\ removed = NoRemoved
    /\ store = NoStore
    /\ proof = NoProof
    /\ loaded = NoLoaded
    /\ forcell = NoForCell
    /\ ext = NoExt
    /\ rerun = NoRerun
    /\ resolved = NoResolved
    /\ builder = NoBuilder
    /\ action = NoAction
    /\ iter = NoIter

\* MerkleUpdate::create(old, new, filter).build()
Create ==
    /\ pc = "start"
    /\ upd' = UpdateBuild(old, new, filter)
    /\ resolved' = IF ReprHash(old) = ReprHash(new) THEN NoResolved
                   ELSE Resolver(old, new, filter)
    /\ pc' = "created"
    /\ UNCHANGED <<old, new, filter, target, applied, removed, store, proof, loaded>>
    /\ UNCHANGED <<forcell, ext, filter2, rerun, builder>>
    /\ UNCHANGED <<action, iter>>

\* update.apply(target), for the old root or for another cell
Apply ==
    /\ pc = "created"
    /\ upd.err = NoErr
    /\ target' \in {old, new}
    /\ applied' = ApplyExt(upd, target')
    /\ pc' = "applied"
    /\ UNCHANGED <<old, new, filter, upd, removed, store, proof, loaded>>
    /\ UNCHANGED <<forcell, ext, filter2, rerun, resolved, builder>>
    /\ UNCHANGED <<action, iter>>

\* tests::dict_removed_cells_diff: store both roots, remove the diff
RemoveDiff ==
    /\ pc = "applied"
    /\ target = old
    /\ removed' = ComputeRemovedCells(upd, old)
    /\ store' = IF removed'.err = NoErr
                THEN RemoveBatch(StoreCell(StoreCell(EmptyCounts, old), new), removed'.diff)
                ELSE store
    /\ pc' = "diffed"
    /\ UNCHANGED <<old, new, filter, upd, target, applied, proof, loaded>>
    /\ UNCHANGED <<forcell, ext, filter2, rerun, resolved, builder>>
    /\ UNCHANGED <<action, iter>>

\* updates made by hand from the two roots and their pruned branches
HandMade(o, n) ==
    LET made(po, pn) ==
            {MkUpdate(NoErr, oh, nh, ReprDepth(o), ReprDepth(n), oc, nc, <<>>, 0) :
                oh \in {ReprHash(o)}, nh \in {ReprHash(n), ReprHash(o), EmptyCellHash},
                oc \in {o, po}, nc \in {n, pn, po}}
    IN made(MakePrunedBranch(o, 0).cell, MakePrunedBranch(n, 0).cell)

Craft ==
    /\ pc = "start"
    /\ upd' \in HandMade(old, new)
    /\ pc' = "created"
    /\ UNCHANGED <<old, new, filter, target, applied, removed, store, proof, loaded>>
    /\ UNCHANGED <<forcell, ext, filter2, rerun, resolved, builder>>
    /\ UNCHANGED <<action, iter>>

\* the update u with one of its fields replaced, and the tree it is then
\* applied to: the old side replaced by the pruned root of o, or the old hash
\* (and the new hash too) replaced by the hash of a tree t
Tampered(u, o) ==
    {[u |-> [u EXCEPT !.old = MakePrunedBranch(o, 0).cell], t |-> o]}
    \cup {[u |-> [u EXCEPT !.old_hash = ReprHash(t)], t |-> t] :
              t \in TreesUpTo(MaxForeignNodes)}
    \cup {[u |-> [u EXCEPT !.old_hash = ReprHash(t), !.new_hash = ReprHash(t)],
           t |-> t] : t \in TreesUpTo(MaxForeignNodes)}

\* apply_ext of an update that was changed after it was built
ApplyTampered ==
    /\ pc = "created"
    /\ upd.err = NoErr
    /\ \E w \in Tampered(upd, old) :
           /\ upd' = w.u
           /\ target' = w.t
           /\ applied' = ApplyExt(w.u, w.t)
    /\ pc' = "applied"
    /\ UNCHANGED <<old, new, filter, removed, store, proof, loaded>>
    /\ UNCHANGED <<forcell, ext, filter2, rerun, resolved, builder>>
    /\ UNCHANGED <<action, iter>>

\* MerkleProof::create(old, filter).build()
Prove ==
    /\ pc = "start"
    /\ proof' = ProofBuild(old, filter)
    /\ pc' = "proved"
    /\ UNCHANGED <<old, new, filter, upd, target, applied, removed, store, loaded>>
    /\ UNCHANGED <<forcell, ext, filter2, rerun, resolved, builder>>
    /\ UNCHANGED <<action, iter>>

\* MerkleUpdate::default() and MerkleProof::default()
UseDefault ==
    /\ pc = "start"
    /\ upd' = MkUpdate(NoErr, DefaultUpdate.old_hash, DefaultUpdate.new_hash,
                       DefaultUpdate.old_depth, DefaultUpdate.new_depth,
                       DefaultUpdate.old, DefaultUpdate.new, <<>>, 0)
    /\ proof' = [NoProof EXCEPT !.err = NoErr]
    /\ pc' = "default"
    /\ UNCHANGED <<old, new, filter, target, applied, removed, store, loaded>>
    /\ UNCHANGED <<forcell, ext, filter2, rerun, resolved, builder>>
    /\ UNCHANGED <<action, iter>>

\* tests::correct_store_load: store_into a new builder, build, parse
StoreLoadUpdate ==
    /\ pc \in {"created", "default"}
    /\ upd.err = NoErr
    /\ LET parsed(b) == [kind |-> "update", err |-> b.err, cell |-> b.cell,
                         u |-> UpdateLoadFrom(FullSlice(b.cell)), p |-> NoLoaded.p]
           stored(st) == parsed(IF st.err = NoErr THEN BuilderBuild(st.b)
                                ELSE Failed(st.err))
       IN loaded' = stored(UpdateStoreInto(upd, NewBuilder))
    /\ pc' = "loaded"
    /\ UNCHANGED <<old, new, filter, upd, target, applied, removed, store, proof>>
    /\ UNCHANGED <<forcell, ext, filter2, rerun, resolved, builder>>
    /\ UNCHANGED <<action, iter>>

StoreLoadProof ==
    /\ pc \in {"proved", "default"}
    /\ proof.err = NoErr
    /\ LET parsed(b) == [kind |-> "proof", err |-> b.err, cell |-> b.cell,
                         u |-> NoLoaded.u, p |-> ProofLoadFrom(FullSlice(b.cell))]
           stored(st) == parsed(IF st.err = NoErr THEN BuilderBuild(st.b)
                                ELSE Failed(st.err))
       IN loaded' = stored(ProofStoreInto(proof, NewBuilder))
    /\ pc' = "loaded"
    /\ UNCHANGED <<old, new, filter, upd, target, applied, removed, store, proof>>
    /\ UNCHANGED <<forcell, ext, filter2, rerun, resolved, builder>>
    /\ UNCHANGED <<action, iter>>

\* MerkleProof::create(old, filter).track_pruned_branches().build_raw_ext(..)
ProveTracked ==
    /\ pc = "start"
    /\ ext' = ProofBuildTracked(old, filter)
    /\ pc' = "tracked"
    /\ UNCHANGED <<old, new, filter, upd, target, applied, removed, store, proof, loaded>>
    /\ UNCHANGED <<forcell, filter2, rerun, resolved, builder>>
    /\ UNCHANGED <<action, iter>>

\* MerkleProof::create_for_cell(old, child_hash).build(), for the hash of a
\* cell of old or of new
ProveForCell ==
    /\ pc = "start"
    /\ \E c \in CellsOf(old) \cup CellsOf(new) :
           forcell' = [child_hash |-> ReprHash(c), p |-> CreateForCell(old, ReprHash(c))]
    /\ pc' = "forcell"
    /\ UNCHANGED <<old, new, filter, upd, target, applied, removed, store, proof, loaded>>
    /\ UNCHANGED <<ext, filter2, rerun, resolved, builder>>
    /\ UNCHANGED <<action, iter>>

\* filters written differently from f: the subtree hashes listed as included
\* too, a hash of no cell of the trees added, the included hashes dropped,
\* the subtree hashes turned into included ones
FilterVariants(f) ==
    {f,
     [f EXCEPT !.incl = @ \cup f.sub],
     [f EXCEPT !.incl = @ \cup {ReprHash([EmptyCell EXCEPT !.d = OrdData(2)])}],
     [f EXCEPT !.incl = {}],
     [f EXCEPT !.incl = @ \cup f.sub, !.sub = {}]}

\* whether f and g give the same check result, as they are and inverted, for
\* every hash of hs
SameAnswers(f, g, hs) ==
    \A h \in hs : /\ FilterCheck(f, h) = FilterCheck(g, h)
                  /\ FilterCheck(InvertedFilter(f), h) = FilterCheck(InvertedFilter(g), h)

\* a second run, with filter2, of the calls made so far
Rerun ==
    /\ pc \in {"created", "applied", "proved"}
    /\ rerun' =
           IF pc = "proved"
           THEN [NoRerun EXCEPT !.kind = "proof", !.proof = ProofBuild(old, filter2)]
           ELSE LET again(u) ==
                        [NoRerun EXCEPT
                           !.kind = "update",
                           !.upd = u,
                           !.applied = IF pc = "applied" /\ u.err = NoErr
                                       THEN ApplyExt(u, target) ELSE NoApply]
                IN again(UpdateBuild(old, new, filter2))
    /\ pc' = "rerun"
    /\ UNCHANGED <<old, new, filter, upd, target, applied, removed, store, proof, loaded>>
    /\ UNCHANGED <<forcell, ext, filter2, resolved, builder>>
    /\ UNCHANGED <<action, iter>>

\* the update builder, the applier and the removed-cells diff
StoreOne ==
    /\ pc \in {"start", "storing"}
    /\ builder.failed < MaxFailedStores
    /\ LET stored(s) ==
               [b |-> s.b, err |-> s.err, cell |-> EmptyCell,
                failed |-> builder.failed + (IF s.err = NoErr THEN 0 ELSE 1)]
       IN builder' = stored(StoreBitOne(builder.b))
    /\ pc' = "storing"
    /\ UNCHANGED <<old, new, filter, upd, target, applied, removed, store, proof, loaded>>
    /\ UNCHANGED <<forcell, ext, filter2, rerun, resolved>>
    /\ UNCHANGED <<action, iter>>

\* builder.build()
BuildIt ==
    /\ pc \in {"start", "storing"}
    /\ LET built(c) == [builder EXCEPT !.err = c.err, !.cell = c.cell]
       IN builder' = built(BuilderBuild(builder.b))
    /\ pc' = "built"
    /\ UNCHANGED <<old, new, filter, upd, target, applied, removed, store, proof, loaded>>
    /\ UNCHANGED <<forcell, ext, filter2, rerun, resolved>>
    /\ UNCHANGED <<action, iter>>

\* MerkleProof::load_from and MerkleUpdate::load_from on the slice of a cell
\* that came from outside
LoadCell ==
    /\ pc = "start"
    /\ \E c \in ParsedCells(old, new) :
           loaded' = [kind |-> "parsed", err |-> NoErr, cell |-> c,
                      u |-> UpdateLoadFrom(FullSlice(c)),
                      p |-> ProofLoadFrom(FullSlice(c))]
    /\ pc' = "parsed"
    /\ UNCHANGED <<old, new, filter, upd, target, applied, removed, store, proof>>
    /\ UNCHANGED <<forcell, ext, filter2, rerun, resolved, builder>>
    /\ UNCHANGED <<action, iter>>

\* action.store_into(&mut builder, finalizer) on a new builder
StoreAction ==
    /\ pc = "start"
    /\ \E a \in OutActions :
           action' = [a |-> a, stored |-> OutActionStoreInto(a, RawBuilder),
                      loaded |-> NoAction.loaded]
    /\ pc' = "stored"
    /\ UNCHANGED <<old, new, filter, upd, target, applied, removed, store, proof, loaded>>
    /\ UNCHANGED <<forcell, ext, filter2, rerun, resolved, builder, iter>>

\* OutAction::load_from on the slice of the cell built
LoadAction ==
    /\ pc = "stored"
    /\ action.stored.err = NoErr
    /\ action' = [action EXCEPT
                     !.loaded = OutActionLoadFrom(AsSlice(RawBuild(action.stored.b)).s)]
    /\ pc' = "reloaded"
    /\ UNCHANGED <<old, new, filter, upd, target, applied, removed, store, proof, loaded>>
    /\ UNCHANGED <<forcell, ext, filter2, rerun, resolved, builder, iter>>

\* what k calls of next() in a row return on an iterator whose slice is s, and
\* the slice after each call: next() depends on the slice only
RECURSIVE NextCalls(_, _)
NextCalls(s, k) ==
    IF k = 0 THEN <<>>
    ELSE LET called(n) == <<n>> \o NextCalls(n.slice, k - 1)
         IN called(OutActionsRevIterNext(s))

\* OutActionsRevIter::new(list.as_slice())
IterNew ==
    /\ pc = "start"
    /\ \E l \in NoLists \cup UNION {ActionLists(n) : n \in 0..MaxActions} :
           iter' = [list |-> l.cell, actions |-> l.actions, wf |-> l.wf,
                    slice |-> AsSlice(l.cell).s, items |-> <<>>,
                    calls |-> NextCalls(AsSlice(l.cell).s, MaxNextCalls)]
    /\ pc' = "iterating"
    /\ UNCHANGED <<old, new, filter, upd, target, applied, removed, store, proof, loaded>>
    /\ UNCHANGED <<forcell, ext, filter2, rerun, resolved, builder, action>>

\* iter.next(): the call is looked up in iter.calls, where IterNew has put
\* OutActionsRevIterNext of each slice the iterator comes to hold
IterNext ==
    /\ pc = "iterating"
    /\ Len(iter.items) < MaxNextCalls
    /\ iter' = [iter EXCEPT !.slice = iter.calls[Len(iter.items) + 1].slice,
                            !.items = Append(@, iter.calls[Len(iter.items) + 1].item)]
    /\ UNCHANGED <<pc, old, new, filter, upd, target, applied, removed, store, proof>>
    /\ UNCHANGED <<loaded, forcell, ext, filter2, rerun, resolved, builder, action>>

Init ==
    /\ Blank
    /\ old \in TreesUpTo(MaxOldNodes)
    /\ new \in TreesUpTo(MaxNewNodes)
    /\ filter \in Filters(old)
    /\ filter2 = filter

Next == Create \/ Apply \/ RemoveDiff

Spec == Init /\ [][Next]_vars

\* the applier on built and on hand-made updates
InitCraft ==
    /\ Blank
    /\ old \in TreesUpTo(MaxNewNodes)
    /\ new \in TreesUpTo(MaxNewNodes)
    /\ filter \in Filters(old)
    /\ filter2 = filter

NextCraft == Create \/ Craft \/ Apply

SpecCraft == InitCraft /\ [][NextCraft]_vars

\* the proof builder
InitProof ==
    /\ Blank
    /\ old \in MTreesUpTo(MaxNewNodes) \cup PrunedTreesUpTo(MaxNewNodes)
    /\ new = EmptyCell
    /\ filter \in AllFilters(old)
    /\ filter2 = filter

NextProof == Prove \/ ProveTracked

SpecProof == InitProof /\ [][NextProof]_vars

\* Store and Load of the records
InitStore ==
    /\ Blank
    /\ old \in MTreesUpTo(MaxNewNodes) \cup PrunedTreesUpTo(MaxNewNodes)
    /\ new \in TreesUpTo(MaxNewNodes)
    /\ filter \in Filters(old)
    /\ filter2 = filter

NextStore == Create \/ Prove \/ UseDefault \/ StoreLoadUpdate \/ StoreLoadProof

SpecStore == InitStore /\ [][NextStore]_vars

\* the proof of a single cell
InitForCell ==
    /\ Blank
    /\ old \in TreesUpTo(MaxOldNodes) \cup MTreesUpTo(MaxNewNodes)
    /\ new \in TreesUpTo(MaxForeignNodes)
    /\ filter = SetFilter({})
    /\ filter2 = filter

NextForCell == ProveForCell

SpecForCell == InitForCell /\ [][NextForCell]_vars

\* two runs with filters that answer alike
InitTwice ==
    /\ Blank
    /\ old \in TreesUpTo(MaxTwiceNodes)
    /\ new \in TreesUpTo(MaxTwiceNodes)
    /\ filter \in AllFilters(old)
    /\ filter2 \in {g \in FilterVariants(filter) :
                       SameAnswers(filter, g, VisitAllCells(old) \cup VisitAllCells(new))}

NextTwice == Create \/ Apply \/ Prove \/ Rerun

SpecTwice == InitTwice /\ [][NextTwice]_vars

\* updates whose sides hold Merkle cells
InitMerkle ==
    /\ Blank
    /\ old \in MerkleSides
    /\ new \in MerkleSides
    /\ filter \in Filters(old)
    /\ filter2 = filter

NextMerkle == Create \/ Craft \/ Apply \/ ApplyTampered \/ RemoveDiff

SpecMerkle == InitMerkle /\ [][NextMerkle]_vars

\* ------------------------------------------------------------------ claims

InitBuilder ==
    /\ old = EmptyCell
    /\ new = EmptyCell
    /\ filter = SetFilter({})
    /\ filter2 = filter
    /\ Blank

NextBuilder == StoreOne \/ BuildIt

SpecBuilder == InitBuilder /\ [][NextBuilder]_vars

InitLoad ==
    /\ old \in PrunedTreesUpTo(MaxTwiceNodes) \cup TreesUpTo(MaxForeignNodes)
    /\ new \in TreesUpTo(MaxForeignNodes)
    /\ filter = SetFilter({})
    /\ filter2 = filter
    /\ Blank

NextLoad == LoadCell

SpecLoad == InitLoad /\ [][NextLoad]_vars

InitResolver ==
    /\ old \in TreesUpTo(MaxOldNodes)
    /\ new \in TreesUpTo(MaxNewNodes)
    /\ filter \in ResolverFilters(old)
    /\ filter2 = filter
    /\ Blank

NextResolver == Create

SpecResolver == InitResolver /\ [][NextResolver]_vars

InitShared ==
    /\ old \in TreesUpTo(MaxOldNodes)
    /\ new \in Reusing(old)
    /\ filter \in ResolverFilters(old)
    /\ filter2 = filter
    /\ Blank

NextShared == Create \/ Apply

SpecShared == InitShared /\ [][NextShared]_vars

\* the three traversals on the same trees: proof builder, update builder and
\* applier, the applier also on hand-made updates
NextDepth == Create \/ Craft \/ Apply \/ Prove

SpecDepth == InitCraft /\ [][NextDepth]_vars

\* the applier on updates as built and on updates changed after the build
NextTamper == Create \/ Apply \/ ApplyTampered

SpecTamper == InitCraft /\ [][NextTamper]_vars

\* the proof builder on trees with a cell at two merkle depths
InitNested ==
    /\ Blank
    /\ old \in Nested
    /\ new = EmptyCell
    /\ filter \in AllFilters(old)
    /\ filter2 = filter

SpecNested == InitNested /\ [][NextProof]_vars

\* the output actions stored and loaded back
InitAction ==
    /\ Blank
    /\ old = EmptyCell
    /\ new = EmptyCell
    /\ filter = SetFilter({})
    /\ filter2 = filter

NextAction == StoreAction \/ LoadAction

SpecAction == InitAction /\ [][NextAction]_vars

\* the reverse iterator over output action lists
NextIter == IterNew \/ IterNext

SpecIter == InitAction /\ [][NextIter]_vars

\* the caller goes on calling next()
SpecIterLive == SpecIter /\ WF_vars(IterNext)

InitMemo ==
    /\ old \in TreesUpTo(MaxSharedNodes)
    /\ new = EmptyCell
    /\ filter \in AllFilters(old)
    /\ filter2 = filter
    /\ Blank

NextMemo == Prove \/ ProveTracked

SpecMemo == InitMemo /\ [][NextMemo]_vars

FullFilter == filter = SetFilter(VisitAllCells(old))

DifferentRoots == ReprHash(old) # ReprHash(new)

C2_AppliedHasNewHash ==
    (pc = "applied" /\ applied.err = NoErr) => ReprHash(applied.cell) = upd.new_hash

\* a hand-made update went through Applier::run and was accepted
C2_Witness ==
    /\ pc = "applied"
    /\ applied.err = NoErr
    /\ upd.old_hash # upd.new_hash
    /\ upd.built = 0
    /\ applied.built > 1
    /\ applied.collected # {}

\* C3: when the representation hash of the cell differs from old_hash,
\* apply_ext returns InvalidData, and it does so before any old cell was
\* collected or any cell was built.
C3_OldHashMismatch ==
    (pc = "applied" /\ ReprHash(target) # upd.old_hash) =>
        /\ applied.err = "InvalidData"
        /\ applied.collected = {}
        /\ applied.built = 0

\* an update that the old root accepts was applied to another cell
C3_Witness ==
    /\ pc = "applied"
    /\ ReprHash(target) # upd.old_hash
    /\ upd.old_hash # upd.new_hash
    /\ applied.err = "InvalidData"
    /\ ApplyExt(upd, old).err = NoErr

\* C4: when old and new have the same representation hash, the builder returns
\* an update both sides of which are one pruned branch over old at merkle
\* depth 0, with new_hash = old_hash and new_depth = old_depth, and the filter
\* is never asked.
C4_EqualRoots ==
    (pc = "created" /\ ReprHash(old) = ReprHash(new)) =>
        /\ upd.err = NoErr
        /\ upd.old = upd.new
        /\ IsPrunedBranch(upd.old)
        /\ upd.old.r = <<>>
        /\ upd.old.m = 1
        /\ upd.old.d.hs = <<ReprHash(old)>>
        /\ upd.old.d.ds = <<ReprDepth(old)>>
        /\ upd.old_hash = ReprHash(old)
        /\ upd.new_hash = upd.old_hash
        /\ upd.old_depth = ReprDepth(old)
        /\ upd.new_depth = upd.old_depth
        /\ upd.checked = <<>>

\* equal roots with references, and a filter that would skip the root
C4_Witness ==
    /\ pc = "created"
    /\ ReprHash(old) = ReprHash(new)
    /\ Len(old.r) = 2
    /\ filter = SetFilter({})
    /\ upd.err = NoErr
    /\ IsPrunedBranch(upd.new)

\* C5 (as claimed): with an update built from different roots with the filter
\* of all hashes of old, a store holding old and new from which the result of
\* compute_removed_cells is removed equals the store holding new alone and the
\* batch is used up, also when old shares descendants.
C5_Claimed ==
    (pc = "diffed" /\ FullFilter /\ DifferentRoots) =>
        /\ removed.err = NoErr
        /\ store.refs = StoreCell(EmptyCounts, new)
        /\ store.empty

\* the hashes at which the cells of one side of an update are known: the root
\* at level 0, a child at the merkle depth of its parent
RECURSIVE SideHashes(_, _)
SideHashes(c, md) ==
    {CellHash(c, md)}
        \cup UNION {SideHashes(c.r[i], md + MerkleOffset(c)) : i \in DOMAIN c.r}

\* a cell and what is reached from it through cells that are not in N
RECURSIVE ReachedOutside(_, _)
ReachedOutside(c, N) ==
    {ReprHash(c)} \cup
        IF ReprHash(c) \in N THEN {}
        ELSE UNION {ReachedOutside(c.r[i], N) : i \in DOMAIN c.r}

RemovedCells == VisitAllCells(old) \ VisitAllCells(new)

\* C6 (as claimed): the keys of the result of compute_removed_cells are
\* exactly the cells reachable from old that are not reachable from new; no
\* cell that survives in new is a key.
C6_Claimed ==
    (pc = "diffed" /\ removed.err = NoErr) => DOMAIN removed.diff = RemovedCells

\* C6: with different roots, the keys of the result of compute_removed_cells
\* are the old root and every cell reached from it through cells whose hash
\* does not occur in the new side of the update; every cell reachable from old
\* and not from new is among them, and every key is a cell of old.
C6_Keys ==
    (pc = "diffed" /\ removed.err = NoErr /\ DifferentRoots) =>
        /\ DOMAIN removed.diff = ReachedOutside(old, SideHashes(upd.new, 0))
        /\ RemovedCells \subseteq DOMAIN removed.diff
        /\ DOMAIN removed.diff \subseteq VisitAllCells(old)

\* a diff with a removed cell below the root and a key that survives in new
C6_Witness ==
    /\ pc = "diffed"
    /\ removed.err = NoErr
    /\ DifferentRoots
    /\ RemovedCells \ {ReprHash(old)} # {}
    /\ DOMAIN removed.diff \cap VisitAllCells(new) # {}

Level0Record ==
    \/ loaded.kind = "update" /\ old.m = 0 /\ new.m = 0
    \/ loaded.kind = "proof" /\ old.m = 0
    \/ upd.built = 0 /\ proof.built = 0

StoredRecordCameBack ==
    /\ loaded.err = NoErr
    /\ loaded.kind = "update" =>
           /\ loaded.u.err = NoErr
           /\ loaded.u.old_hash = upd.old_hash
           /\ loaded.u.new_hash = upd.new_hash
           /\ loaded.u.old_depth = upd.old_depth
           /\ loaded.u.new_depth = upd.new_depth
           /\ ReprHash(loaded.u.old) = ReprHash(upd.old)
           /\ ReprHash(loaded.u.new) = ReprHash(upd.new)
           /\ loaded.u.rest.bits = 0 /\ loaded.u.rest.refs = 0
    /\ loaded.kind = "proof" =>
           /\ loaded.p.err = NoErr
           /\ loaded.p.hash = proof.hash
           /\ loaded.p.depth = proof.depth
           /\ ReprHash(loaded.p.cell) = ReprHash(proof.cell)
           /\ loaded.p.rest.bits = 0 /\ loaded.p.rest.refs = 0

C9_RootSkipped ==
    pc = "proved" =>
        /\ FilterCheck(filter, ReprHash(old)) = "Skip" =>
               proof.err = "EmptyProof" /\ proof.cell = EmptyCell /\ proof.built = 0
        /\ proof.err = NoErr => FilterCheck(filter, ReprHash(old)) # "Skip"

\* the root is skipped while cells below it are included
C9_Witness ==
    /\ pc = "proved"
    /\ FilterCheck(filter, ReprHash(old)) = "Skip"
    /\ Len(old.r) > 0
    /\ \E i \in DOMAIN old.r : FilterCheck(filter, ReprHash(old.r[i])) # "Skip"
    /\ proof.err = "EmptyProof"

C11_ChildNotFound ==
    (pc = "forcell" /\ forcell.child_hash \notin VisitAllCells(old)) =>
        /\ forcell.p.err = "EmptyProof"
        /\ forcell.p.cell = EmptyCell
        /\ forcell.p.built = 0

\* the hash of a foreign cell is looked for in a tree with references
C11_Witness ==
    /\ pc = "forcell"
    /\ forcell.child_hash \notin VisitAllCells(old)
    /\ \E i \in DOMAIN old.r : Len(old.r[i].r) > 0
    /\ forcell.p.err = "EmptyProof"

\* the repr hashes of the cells from c down to the first occurrence of h in
\* depth-first reference order, both included; empty if h does not occur
RECURSIVE FirstPath(_, _)
FirstPath(c, h) ==
    IF ReprHash(c) = h THEN {h}
    ELSE LET holds(with) ==
                 IF with = {} THEN {}
                 ELSE {ReprHash(c)} \cup
                      FirstPath(c.r[CHOOSE i \in with : \A j \in with : i <= j], h)
         IN holds({i \in DOMAIN c.r : h \in VisitAllCells(c.r[i])})

\* rep stands for orig in a proof that keeps the cells of `keep`: a kept cell
\* is rebuilt with its data and its references, cell by cell; any other cell
\* is a pruned branch holding its level-0 hash and depth, or (unless
\* leaves_pruned) is the original cell when it has no references
RECURSIVE ForCellShape(_, _, _, _)
ForCellShape(orig, rep, keep, leaves_pruned) ==
    IF ReprHash(orig) \in keep
    THEN /\ rep.x = orig.x
         /\ rep.d = orig.d
         /\ Len(rep.r) = Len(orig.r)
         /\ \A i \in DOMAIN orig.r :
                ForCellShape(orig.r[i], rep.r[i], keep, leaves_pruned)
    ELSE IF leaves_pruned \/ ReferenceCount(orig) > 0
    THEN /\ IsPrunedBranch(rep)
         /\ rep.d.hs[1] = CellHash(orig, 0)
         /\ rep.d.ds[1] = CellDepth(orig, 0)
    ELSE rep = orig

CellOfHash(root, h) == CHOOSE c \in CellsOf(root) : ReprHash(c) = h

\* the hashes the filter was asked about after the root
CheckedBelowRoot(checked) == {checked[i] : i \in 2..Len(checked)}

\* rep stands for the rebuilt cell orig, whose children are at merkle depth
\* md: a skipped child with references is the pruned branch of that depth, a
\* skipped child without references is kept with its data, an included child
\* is rebuilt in turn
RECURSIVE PrunedShape(_, _, _, _)
PrunedShape(orig, rep, md, f) ==
    /\ rep.x = orig.x
    /\ rep.d = orig.d
    /\ Len(rep.r) = Len(orig.r)
    /\ \A i \in DOMAIN orig.r :
           LET at(child, act) ==
                   IF act = "IncludeSubtree" THEN TRUE
                   ELSE IF act = "Skip" /\ ReferenceCount(child) > 0
                   THEN rep.r[i] = MakePrunedBranch(child, md).cell
                   ELSE /\ ~(IsPrunedBranch(rep.r[i]) /\ ~IsPrunedBranch(child))
                        /\ PrunedShape(child, rep.r[i], md + MerkleOffset(child), f)
           IN at(orig.r[i], FilterCheck(f, ReprHash(orig.r[i])))

Rebuilds(c, f) ==
    LET on(act) == act = "Include" \/ (act = "Skip" /\ ReferenceCount(c) = 0)
    IN on(FilterCheck(f, ReprHash(c)))

\* the cells met below the rebuilt cell c: its children, and what is met
\* below those of them that are rebuilt
RECURSIVE MetBelow(_, _)
MetBelow(c, f) ==
    UNION {{c.r[i]} \cup (IF Rebuilds(c.r[i], f) THEN MetBelow(c.r[i], f) ELSE {}) :
              i \in DOMAIN c.r}

\* the cells the builder rebuilds, the root among them
RebuiltCells(root, f) == {root} \cup {c \in MetBelow(root, f) : Rebuilds(c, f)}

\* the references of rebuilt cells to skipped cells with references: one
\* pruned branch is built for each
PrunedRefs(root, f) ==
    {hi \in UNION {{<<ReprHash(c), i>> : i \in DOMAIN c.r} : c \in RebuiltCells(root, f)} :
        LET at(child) == /\ FilterCheck(f, ReprHash(child)) = "Skip"
                         /\ ReferenceCount(child) > 0
        IN at(CellOfHash(root, hi[1]).r[hi[2]])}

\* rep stands for the rebuilt cell orig: a child included with its subtree is
\* the original child, down to its last cell
RECURSIVE SplicedShape(_, _, _)
SplicedShape(orig, rep, f) ==
    /\ Len(rep.r) = Len(orig.r)
    /\ \A i \in DOMAIN orig.r :
           IF FilterCheck(f, ReprHash(orig.r[i])) = "IncludeSubtree"
           THEN rep.r[i] = orig.r[i]
           ELSE Rebuilds(orig.r[i], f) => SplicedShape(orig.r[i], rep.r[i], f)

\* C14: a cell below the root for which the filter returns IncludeSubtree is
\* in the proof as the original cell: it is not rebuilt, none of its
\* descendants is pruned, and the filter is asked about none of them on its
\* account (the filter is asked exactly about the root and the cells met
\* below rebuilt cells; the cells built are the rebuilt cells and one pruned
\* branch per reference to a skipped cell with references).
C14_SubtreeSpliced ==
    (pc = "proved" /\ proof.err = NoErr) =>
        /\ {proof.checked[i] : i \in DOMAIN proof.checked} =
               {ReprHash(c) : c \in {old} \cup MetBelow(old, filter)}
        /\ SplicedShape(old, proof.cell, filter)
        /\ proof.built = Cardinality({ReprHash(c) : c \in RebuiltCells(old, filter)})
                           + Cardinality(PrunedRefs(old, filter))

\* a child of the root included with its subtree, above a cell with
\* references that the filter would skip and was not asked about
C14_Witness ==
    /\ pc = "proved"
    /\ proof.err = NoErr
    /\ \E i \in DOMAIN old.r :
           /\ FilterCheck(filter, ReprHash(old.r[i])) = "IncludeSubtree"
           /\ proof.cell.r[i] = old.r[i]
           /\ \E j \in DOMAIN old.r[i].r :
                  /\ ReferenceCount(old.r[i].r[j]) > 0
                  /\ FilterCheck(filter, ReprHash(old.r[i].r[j])) = "Skip"
                  /\ \A k \in DOMAIN proof.checked :
                         proof.checked[k] # ReprHash(old.r[i].r[j])

PreconditionFailed ==
    pc = "applied" /\ ReprHash(target) # upd.old_hash

PostconditionFailed ==
    /\ pc = "applied"
    /\ ReprHash(target) = upd.old_hash
    /\ upd.old_hash # upd.new_hash
    /\ applied.err = "InvalidData"
    /\ ApplyPruned(upd, target, FALSE).err = NoErr

\* C16 (as claimed): an apply_ext that fails with InvalidData on the old hash
\* or on the new hash returns no tree and has not asked the cell context to
\* build any cell.
C16_Claimed ==
    (PreconditionFailed \/ PostconditionFailed) =>
        /\ applied.err = "InvalidData"
        /\ applied.cell = EmptyCell
        /\ applied.built = 0

\* C16 (amended): an apply_ext that fails with InvalidData on the old hash or
\* on the new hash returns no tree; on the old hash the cell context has not
\* been asked to build any cell, on the new hash it has been asked to build
\* every cell of the tree that was then rejected.
C16_FailedApply ==
    /\ PreconditionFailed =>
           applied.err = "InvalidData" /\ applied.cell = EmptyCell /\ applied.built = 0
    /\ PostconditionFailed =>
           /\ applied.cell = EmptyCell
           /\ applied.built = ApplyPruned(upd, target, FALSE).built
           /\ applied.built > 0

\* a hand-made update with a wrong new_hash was applied to its old root: the
\* new tree was rebuilt cell by cell, then rejected
C16_Witness ==
    /\ PostconditionFailed
    /\ applied.built > 1
    /\ applied.collected # {}
    /\ applied.cell = EmptyCell

\* C17: a builder accepts exactly 1023 data bits: store_bit_one on a builder
\* holding fewer than 1023 bits succeeds and adds a one-bit, on a builder
\* holding 1023 bits it fails with CellOverflow and leaves the builder as it
\* was, and build() then still succeeds with the cell of the bits stored (the
\* 1023 one-bits when the builder is full).
C17_MaxBits ==
    [][/\ pc' = "storing" =>
           IF builder.b.d.n < 1023
           THEN /\ builder'.err = NoErr
                /\ builder'.b = [builder.b EXCEPT !.d = OrdData(builder.b.d.n + 1)]
           ELSE /\ builder'.err = "CellOverflow"
                /\ builder'.b = builder.b
       /\ pc' = "built" =>
           /\ builder'.err = NoErr
           /\ builder'.b = builder.b
           /\ builder'.cell = [x |-> FALSE, m |-> 0, d |-> OrdData(builder.b.d.n),
                               r |-> <<>>]]_vars

\* 1023 stores succeeded, a further one failed, and the builder was built
C17_Witness ==
    /\ pc = "built"
    /\ builder.failed > 0
    /\ builder.err = NoErr
    /\ builder.b.d.n = 1023
    /\ builder.cell.d = OrdData(1023)
    /\ builder.cell.r = <<>>

\* what a slice of a cell must hold for load_from to take a record of `bits`
\* data bits and `refs` references from it
Underflow(c, bits, refs) == c.d.n < bits \/ Len(c.r) < refs

\* whether the i-th stored hash and depth of c are those of its i-th child
StoredMatches(c, i) ==
    c.d.hs[i] = CellHash(c.r[i], 0) /\ c.d.ds[i] = CellDepth(c.r[i], 0)

\* C18: load_from of a MerkleProof and of a MerkleUpdate returns CellUnderflow
\* when the slice holds fewer than BITS bits or REFS references; otherwise
\* InvalidCell when the first byte is not the tag or a stored hash or depth
\* is not the level-0 hash or depth of the child it stands for; otherwise Ok
\* with the stored fields and children.
C18_LoadRejects ==
    pc = "parsed" =>
        /\ Underflow(loaded.cell, MerkleProofBits, MerkleProofRefs) =>
               loaded.p.err = "CellUnderflow"
        /\ (/\ ~Underflow(loaded.cell, MerkleProofBits, MerkleProofRefs)
            /\ (loaded.cell.d.tag # TagMerkleProof \/ ~StoredMatches(loaded.cell, 1))) =>
               loaded.p.err = "InvalidCell"
        /\ loaded.p.err \in {"CellUnderflow", "InvalidCell", NoErr}
        /\ loaded.p.err = NoErr =>
               /\ ~Underflow(loaded.cell, MerkleProofBits, MerkleProofRefs)
               /\ loaded.cell.d.tag = TagMerkleProof
               /\ StoredMatches(loaded.cell, 1)
               /\ loaded.p.cell = loaded.cell.r[1]
               /\ loaded.p.hash = loaded.cell.d.hs[1]
               /\ loaded.p.depth = loaded.cell.d.ds[1]
        /\ Underflow(loaded.cell, MerkleUpdateBits, MerkleUpdateRefs) =>
               loaded.u.err = "CellUnderflow"
        /\ (/\ ~Underflow(loaded.cell, MerkleUpdateBits, MerkleUpdateRefs)
            /\ (\/ loaded.cell.d.tag # TagMerkleUpdate
                \/ ~StoredMatches(loaded.cell, 1)
                \/ ~StoredMatches(loaded.cell, 2))) =>
               loaded.u.err = "InvalidCell"
        /\ loaded.u.err \in {"CellUnderflow", "InvalidCell", NoErr}
        /\ loaded.u.err = NoErr =>
               /\ ~Underflow(loaded.cell, MerkleUpdateBits, MerkleUpdateRefs)
               /\ loaded.cell.d.tag = TagMerkleUpdate
               /\ StoredMatches(loaded.cell, 1) /\ StoredMatches(loaded.cell, 2)
               /\ loaded.u.old = loaded.cell.r[1] /\ loaded.u.new = loaded.cell.r[2]

\* a proof cell with the right tag and the right hash, over a child of level
\* 1, was rejected for its depth only
C18_Witness ==
    /\ pc = "parsed"
    /\ loaded.cell.x
    /\ loaded.cell.d.tag = TagMerkleProof
    /\ ~Underflow(loaded.cell, MerkleProofBits, MerkleProofRefs)
    /\ loaded.cell.r[1].m # 0
    /\ loaded.cell.d.hs[1] = CellHash(loaded.cell.r[1], 0)
    /\ loaded.cell.d.ds[1] # CellDepth(loaded.cell.r[1], 0)
    /\ loaded.p.err = "InvalidCell"
    /\ loaded.u.err = "CellUnderflow"

\* C19: an update with old_hash = new_hash applied to a cell of that
\* representation hash returns that very cell, whatever the two sides of the
\* update are: no old cell is collected from them and no cell is built.
C19_NoOpUpdate ==
    (pc = "applied" /\ upd.old_hash = upd.new_hash /\ ReprHash(target) = upd.old_hash) =>
        /\ applied.err = NoErr
        /\ applied.cell = target
        /\ ReprHash(applied.cell) = ReprHash(target)
        /\ applied.collected = {}
        /\ applied.built = 0

\* a hand-made update with equal hashes whose sides the applier would have
\* refused was applied to the old root
C19_Witness ==
    /\ pc = "applied"
    /\ upd.old_hash = upd.new_hash
    /\ ReprHash(target) = upd.old_hash
    /\ Len(target.r) > 0
    /\ ReprHash(new) # ReprHash(old)
    /\ ApplyPruned(upd, target, TRUE).err = "InvalidData"
    /\ applied.cell = old

\* the hashes of the cells below c
Descendants(c) == UNION {VisitAllCells(c.r[i]) : i \in DOMAIN c.r}

\* C20 (as claimed): a cell of old is in the changed-cells set if and only if
\* one of its descendants is outside the filter or has its hash in the map of
\* the pruned branches of the new side.
C20_Claimed ==
    (pc = "created" /\ resolved.err = NoErr) =>
        \A c \in CellsOf(old) :
            ReprHash(c) \in resolved.changed <=>
                \E h \in Descendants(c) :
                    FilterCheck(filter, h) = "Skip" \/ h \in DOMAIN resolved.pruned

RECURSIVE Enter(_, _, _, _)
RECURSIVE EnterRefs(_, _, _, _, _, _)

\* the depth-first walk of old in the order of the references, each cell
\* entered at its first occurrence only and left at once when the filter skips
\* it (the filter is no longer asked below a cell included with its subtree);
\* st is [seen, edges], an edge leading from a cell to a child first entered
\* from it
Enter(cell, skip_filter, f, st) ==
    LET go(h, act) ==
            IF ~skip_filter /\ act = "Skip" THEN [st EXCEPT !.seen = @ \cup {h}]
            ELSE EnterRefs(cell, h, 1, skip_filter \/ act = "IncludeSubtree", f,
                           [st EXCEPT !.seen = @ \cup {h}])
        at(h) == IF h \in st.seen THEN st ELSE go(h, FilterCheck(f, h))
    IN at(ReprHash(cell))

EnterRefs(cell, h, i, skip_filter, f, st) ==
    IF i > Len(cell.r) THEN st
    ELSE LET first(hc) ==
                 IF hc \in st.seen THEN EnterRefs(cell, h, i + 1, skip_filter, f, st)
                 ELSE EnterRefs(cell, h, i + 1, skip_filter, f,
                                Enter(cell.r[i], skip_filter, f,
                                      [st EXCEPT !.edges = @ \cup {<<h, hc>>}]))
         IN first(ReprHash(cell.r[i]))

\* the cells from which an edge, or a chain of edges, leads to a cell of front
RECURSIVE Above(_, _)
Above(front, edges) ==
    LET up(ps) == IF ps = {} THEN {} ELSE ps \cup Above(ps, edges)
    IN up({e[1] : e \in {d \in edges : d[2] \in front}})

\* the cells of old that the walk leads through on its way down to a cell
\* whose hash is in the map, and the root if its own hash is in the map
LeadsToPruned(root, f, pruned) ==
    LET marked(walk) ==
            Above(walk.seen \cap DOMAIN pruned, walk.edges)
                \cup ({ReprHash(root)} \cap DOMAIN pruned)
    IN marked(Enter(root, FALSE, f, [seen |-> {}, edges |-> {}]))

\* C20 (amended): a cell of old is in the changed-cells set if and only if the
\* depth-first walk of old, which enters each cell at its first occurrence
\* only and does not go below a cell the filter skips, leads from it down to
\* a cell whose hash is in the map of the pruned branches of the new side, or
\* it is the root and its own hash is in that map.
C20_ChangedCells ==
    (pc = "created" /\ resolved.err = NoErr) =>
        resolved.changed = LeadsToPruned(old, filter, resolved.pruned)

\* a cell that reaches a pruned branch of the new side only through a subtree
\* entered earlier is not marked, while the cell entered first is
C20_Witness ==
    /\ pc = "created"
    /\ resolved.err = NoErr
    /\ filter = SetFilter(VisitAllCells(old))
    /\ Len(old.r) = 2
    /\ ReprHash(old.r[1]) \in DOMAIN resolved.pruned
    /\ ReprHash(old.r[1]) \in Descendants(old.r[2])
    /\ ReprHash(old.r[2]) \notin resolved.changed
    /\ ReprHash(old) \in resolved.changed

\* the hashes of the cells of one side of an update that are not pruned
\* branches
RECURSIVE UnprunedHashes(_, _)
UnprunedHashes(c, md) ==
    (IF IsPrunedBranch(c) THEN {} ELSE {CellHash(c, md)})
        \cup UNION {UnprunedHashes(c.r[i], md + MerkleOffset(c)) : i \in DOMAIN c.r}

\* the hashes of old reached from the root of c through cells the filter does
\* not skip
RECURSIVE ReachedThroughFilter(_, _, _)
ReachedThroughFilter(c, skip_filter, f) ==
    LET down(act) ==
            IF ~skip_filter /\ act = "Skip" THEN {}
            ELSE UNION {ReachedThroughFilter(c.r[i],
                                             skip_filter \/ act = "IncludeSubtree", f) :
                            i \in DOMAIN c.r}
    IN {ReprHash(c)} \cup down(FilterCheck(f, ReprHash(c)))

\* an update the builder made from two different roots
BuilderMade ==
    pc \in {"created", "applied"} /\ upd.err = NoErr /\ resolved.err = NoErr

TimesChecked(checked, h) == Cardinality({i \in DOMAIN checked : checked[i] = h})

\* the log of the filter and the count of the cells built by the last proof
\* build (of either builder)
LastBuild ==
    IF pc = "proved" THEN [err |-> proof.err, checked |-> proof.checked, built |-> proof.built]
    ELSE [err |-> ext.err, checked |-> ext.checked, built |-> ext.built]

\* whether the builder answers a check of hash h with a pruned branch
PrunedOnCheck(h) ==
    FilterCheck(filter, h) = "Skip" /\ ReferenceCount(CellOfHash(old, h)) > 0

\* C22 (as claimed): in one proof build the filter is asked at most once about
\* each distinct cell, and at most one cell is built for each.
C22_Claimed ==
    (pc \in {"proved", "tracked"} /\ LastBuild.err = NoErr) =>
        /\ \A h \in VisitAllCells(old) : TimesChecked(LastBuild.checked, h) <= 1
        /\ LastBuild.built <= Cardinality({LastBuild.checked[i] : i \in DOMAIN LastBuild.checked})

\* C22 (amended): in one proof build every distinct cell that is rebuilt (the
\* filter includes it, or skips it and it has no references) is checked once
\* and rebuilt once, however many parents reference it; for a cell the filter
\* skips and that has references the filter is asked and a pruned branch is
\* built once for each reference to it from a rebuilt cell, and for a cell
\* below the root included with its subtree the filter is asked once for each
\* such reference and nothing is built.
C22_RebuiltOnce ==
    (pc \in {"proved", "tracked"} /\ LastBuild.err = NoErr) =>
        /\ TimesChecked(LastBuild.checked, ReprHash(old)) = 1
        /\ \A h \in VisitAllCells(old) :
               (FilterCheck(filter, h) # "IncludeSubtree" /\ ~PrunedOnCheck(h)) =>
                   TimesChecked(LastBuild.checked, h) <= 1
        /\ LastBuild.built =
               1 + Cardinality({i \in 2..Len(LastBuild.checked) :
                                   \/ PrunedOnCheck(LastBuild.checked[i])
                                   \/ FilterCheck(filter, LastBuild.checked[i]) # "IncludeSubtree"})

\* a rebuilt cell with two parents, and a skipped cell with two parents for
\* which two pruned branches were built
C22_Witness ==
    /\ pc = "proved"
    /\ proof.err = NoErr
    /\ Len(old.r) = 2
    /\ old.r[1] = old.r[2]
    /\ Len(old.r[1].r) > 0
    /\ PrunedOnCheck(ReprHash(old.r[1]))
    /\ TimesChecked(proof.checked, ReprHash(old.r[1])) = 2
    /\ proof.built = 3

\* the merkle nesting limit: a Merkle cell nests at most to this depth
MerkleNestingLimit == 2

\* C23 (as claimed): the explicit stack of the proof builder is never higher
\* than the depth of the traversed tree plus one, and the native recursion of
\* the update builder (Resolver::fill) and of the update applier
\* (Applier::run) is never deeper than the merkle nesting limit, whatever the
\* depth of the trees.
C23_Claimed ==
    /\ (pc = "proved" /\ proof.err = NoErr) => proof.stack <= ReprDepth(old) + 1
    /\ resolved.frames <= MerkleNestingLimit
    /\ applied.frames <= MerkleNestingLimit

\* C24 (as claimed): an OutAction stored with store_into and loaded back with
\* OutAction::load_from comes back as the same variant with the same fields,
\* a ChangeLibrary action for every mode, with a hash or with a code cell.
C24_Claimed ==
    pc = "reloaded" => action.loaded.err = NoErr /\ action.loaded.v = action.a

\* the hashes stored in the pruned-branch children of the new side whose level
\* mask has the bit of the merkle depth of their parent's children
RECURSIVE SubstitutedHashes(_, _)
SubstitutedHashes(cell, md) ==
    UNION {IF IsPrunedBranch(cell.r[i])
           THEN IF Bit(cell.r[i].m, md) = 1
                THEN {CellHash(cell.r[i], MaskLevel(cell.r[i].m) - 1)}
                ELSE {}
           ELSE SubstitutedHashes(cell.r[i], md + MerkleOffset(cell.r[i])) :
           i \in DOMAIN cell.r}

\* r is the cell n of the new side with each such pruned branch replaced by a
\* cell of the tree t that has its hash
RECURSIVE SubstitutedBy(_, _, _, _)
SubstitutedBy(n, r, md, t) ==
    /\ Len(r.r) = Len(n.r)
    /\ \A i \in DOMAIN n.r :
           IF IsPrunedBranch(n.r[i])
           THEN IF Bit(n.r[i].m, md) = 1
                THEN /\ r.r[i] \in CellsOf(t)
                     /\ ReprHash(r.r[i]) = CellHash(n.r[i], MaskLevel(n.r[i].m) - 1)
                ELSE r.r[i] = n.r[i]
           ELSE SubstitutedBy(n.r[i], r.r[i], md + MerkleOffset(n.r[i]), t)

\* a hash to be substituted that the old side of the update or the tree lacks
MissingOldCell ==
    \E h \in SubstitutedHashes(upd.new, MerkleOffset(upd.new)) :
        \/ h \notin {CellHash(c, 0) : c \in CellsOf(upd.old)}
        \/ h \notin VisitAllCells(target)

\* C25 (as claimed): in every apply, each pruned-branch child of the new side
\* with the bit of the current merkle depth is replaced by the cell of the
\* old tree that has its hash, and the apply is InvalidData when the old side
\* or the old tree lacks that hash.
C25_Claimed ==
    pc = "applied" =>
        /\ MissingOldCell => applied.err = "InvalidData"
        /\ applied.err = NoErr =>
               SubstitutedBy(upd.new, applied.cell, MerkleOffset(upd.new), target)

\* C25 (amended): the same for an apply to a tree of hash old_hash of an update
\* whose old_hash and new_hash differ; with equal hashes the tree is returned
\* as it is and the sides of the update are not looked at.
C25_Substituted ==
    (pc = "applied" /\ ReprHash(target) = upd.old_hash /\ upd.old_hash # upd.new_hash) =>
        /\ MissingOldCell => applied.err = "InvalidData"
        /\ applied.err = NoErr =>
               /\ SubstitutedBy(upd.new, applied.cell, MerkleOffset(upd.new), target)
               /\ ~MissingOldCell

\* an apply that failed in the applier: the old side of the update holds the
\* hash of a pruned branch of the new side, the tree holds no cell of that hash
C25_Witness ==
    /\ pc = "applied"
    /\ ReprHash(target) = upd.old_hash
    /\ upd.old_hash # upd.new_hash
    /\ FindOldCells(upd).err = NoErr
    /\ MissingOldCell
    /\ applied.err = "InvalidData"

\* every pruned branch below cell has the bit of the merkle depth at which it
\* is reached; md is the merkle depth of the children of cell
RECURSIVE PrunedAtDepth(_, _)
PrunedAtDepth(cell, md) ==
    \A i \in DOMAIN cell.r :
        IF IsPrunedBranch(cell.r[i]) THEN Bit(cell.r[i].m, md) = 1
        ELSE PrunedAtDepth(cell.r[i], md + MerkleOffset(cell.r[i]))

\* C26 (as claimed): every pruned branch of a proof was built with the merkle
\* depth of the path on which it appears, also when a cell is reached at two
\* merkle depths and taken from the memo table the second time.
C26_Claimed ==
    (pc = "proved" /\ proof.err = NoErr) =>
        PrunedAtDepth(proof.cell, MerkleOffset(proof.cell))

\* C27: a load_from of a MerkleProof (or MerkleProofRef) or of a MerkleUpdate
\* that fails, with CellUnderflow or InvalidCell, leaves the slice where it
\* was; one that succeeds advances it by exactly 280 bits and 1 reference for
\* a proof, 552 bits and 2 references for an update.
C27_LoadAdvances ==
    pc = "parsed" =>
        /\ loaded.p.err # NoErr => loaded.p.rest = FullSlice(loaded.cell)
        /\ loaded.p.err = NoErr =>
               /\ loaded.p.rest.bits = FullSlice(loaded.cell).bits - MerkleProofBits
               /\ loaded.p.rest.refs = FullSlice(loaded.cell).refs - MerkleProofRefs
               /\ loaded.p.rest.cell = loaded.cell
        /\ loaded.u.err # NoErr => loaded.u.rest = FullSlice(loaded.cell)
        /\ loaded.u.err = NoErr =>
               /\ loaded.u.rest.bits = FullSlice(loaded.cell).bits - MerkleUpdateBits
               /\ loaded.u.rest.refs = FullSlice(loaded.cell).refs - MerkleUpdateRefs
               /\ loaded.u.rest.cell = loaded.cell

\* a cell with the tag of an update whose second hash is not the hash of its
\* second reference was rejected as an update after all its fields were read,
\* and the slice is where it was
C27_Witness ==
    /\ pc = "parsed"
    /\ loaded.cell.d.tag = TagMerkleUpdate
    /\ SliceHasRemaining(FullSlice(loaded.cell), MerkleUpdateBits, MerkleUpdateRefs)
    /\ loaded.u.err = "InvalidCell"
    /\ loaded.u.rest = FullSlice(loaded.cell)
    /\ loaded.p.err = "InvalidCell"

\* the iterator has returned, for a well-formed list, its actions from the
\* last stored to the first and then None only
YieldsActions ==
    iter.wf =>
        \A i \in DOMAIN iter.items :
            IF i <= Len(iter.actions) THEN iter.items[i] = ItemOk(iter.actions[i])
            ELSE iter.items[i] = ItemNone

\* no item follows a None but None
FusedAfterNone ==
    \A i \in DOMAIN iter.items : \A j \in DOMAIN iter.items :
        (i < j /\ iter.items[i] = ItemNone) => iter.items[j] = ItemNone

ReturnedNone == iter.items # <<>> /\ iter.items[Len(iter.items)] = ItemNone

\* C28 (as claimed): over a well-formed list of n actions the iterator yields
\* exactly n Ok items, last-stored action first, and then None; after a None
\* every later call returns None; and on every input, well-formed or not,
\* repeated calls of next() eventually return None.
C28_Claimed ==
    /\ [](YieldsActions /\ FusedAfterNone)
    /\ (pc = "iterating") ~> ReturnedNone

\* what was counted: a traversal that finished left its merkle_depth
Balanced(r) ==
    /\ ~r.underflow
    /\ \A k \in DOMAIN r.merkle_depth : r.merkle_depth[k] = 0

\* C29: in find_old_cells, in compute_removed_cells and in the collection of
\* old cells of apply_ext, merkle_depth is never decremented below zero, and
\* it is 0 wherever a traversal finishes, also for updates whose sides have
\* Merkle cells as roots or inner cells
C29_CountersBalanced ==
    /\ pc \in {"applied", "diffed"} => Balanced(applied)
    /\ pc = "diffed" => Balanced(removed)

\* an update with a Merkle cell at the root of one side and inside the other
\* went through the three traversals of apply and the one of the diff
C29_Witness ==
    /\ pc = "diffed"
    /\ IsMerkle(upd.new)
    /\ \E c \in CellsOf(upd.old) \ {upd.old} : IsMerkle(c)
    /\ \E c \in CellsOf(upd.new) \ {upd.new} : IsMerkle(c)
    /\ applied.err = NoErr
    /\ Len(applied.merkle_depth) = 3
    /\ removed.err = NoErr
    /\ Len(removed.merkle_depth) = 1

\* the cells of old whose hash is in the set H
CellsIn(H) == {c \in CellsOf(old) : ReprHash(c) \in H}

\* h is the hash of a reference of a cell of old with its hash in H
ChildOfMember(h, H) ==
    \E p \in CellsIn(H) : \E i \in DOMAIN p.r : ReprHash(p.r[i]) = h

\* C30: after the resolver of the update builder has run, the changed-cells
\* set is empty or contains the old root, and every other member is a
\* reference of a member; the old side built from the set keeps every cell of
\* the set, the root among them
C30_ChangedConnected ==
    (pc = "created" /\ resolved.err = NoErr) =>
        /\ resolved.changed = {} \/ ReprHash(old) \in resolved.changed
        /\ \A h \in resolved.changed \ {ReprHash(old)} :
               ChildOfMember(h, resolved.changed)
        /\ upd.err = NoErr =>
               /\ resolved.changed \subseteq UnprunedHashes(upd.old, 0)
               /\ CellHash(upd.old, 0) = ReprHash(old)

\* the set holds the root, a reference of the root and a reference of that
\* one, and leaves out a cell of old with references; the old side was built
C30_Witness ==
    /\ pc = "created"
    /\ resolved.err = NoErr
    /\ upd.err = NoErr
    /\ ReprHash(old) \in resolved.changed
    /\ \E h \in resolved.changed \ {ReprHash(old)} :
           /\ h \notin {ReprHash(old.r[i]) : i \in DOMAIN old.r}
           /\ ChildOfMember(h, resolved.changed \ {ReprHash(old)})
    /\ \E c \in CellsOf(old) : Len(c.r) > 0 /\ ReprHash(c) \notin resolved.changed

====
